---- MODULE Spec2Model ----
(***************************************************************************)
(* A model of the ragapi gateway: the bearer-token gate and the router of  *)
(* the server's fetch handler, the credential store and collection         *)
(* registry kept in config.json, and the /api-tokens, /collections,        *)
(* /models, /query, /embed, /generate and /chat route handlers with the    *)
(* backend calls each of them makes and the body of a streamed answer.     *)
(*                                                                         *)
(* One action is one request handled by fetch from its first line to the   *)
(* response.  The last request, its response and the backend calls it made *)
(* are kept in the state so that properties of a request can be stated.    *)
(* SpecStore runs the handlers that write config.json while reads and      *)
(* writes of the file may fail; SpecRace runs two of them at once, with a  *)
(* step at each await between their loadConfig and their saveConfig.       *)
(***************************************************************************)
EXTENDS Integers, Sequences, FiniteSets, TLC

VARIABLES
  configFile,     \* config.json: Undef while the file does not exist, else Some(AppConfig)
  defaultConfig,  \* the module-level defaultConfig object loadConfig returns without a file
  issued,         \* how many tokens generateToken / randomUUID have produced so far
  handedOut,      \* the {id, token} pairs creation responses have shown to clients
  qdrantCollections, \* names of the collections the vector store holds
  qdrantPoints,   \* the <<collection, id>> of every point the vector store holds
  ollamaModels,   \* names of the models the inference server holds locally
  request,        \* the request handled last
  response,       \* the response to it
  calls,          \* the backend calls made while handling it, in order
  stream,         \* the body of a streamed response: what was read and enqueued
  revoked,        \* the ids of the tokens a DELETE /api-tokens/:id answered success for
  disk,           \* how file operations on config.json end now: "ok", "readFails", "writeFails"
  inflight        \* per concurrent handler, Undef or Some of what it holds between
                  \* its loadConfig and its saveConfig

vars == <<configFile, defaultConfig, issued, handedOut, qdrantCollections,
          qdrantPoints, ollamaModels, request, response, calls, stream,
          revoked, disk, inflight>>

storeVars == <<configFile, defaultConfig, issued, handedOut, revoked>>
worldVars == <<disk, inflight>>

\* The handlers that can run at once.
Procs == {1, 2}
NoneInFlight == [p \in Procs |-> <<>>]
backendVars == <<qdrantCollections, qdrantPoints, ollamaModels>>

----------------------------------------------------------------------------
(* Bounds of the model. *)

\* Tokens ever created in one run.
MaxIssued == 2
\* Points a vector search returns at most.
MaxResults == 2
\* Chunks the chat backend streams at most before the stream ends or fails.
MaxChunks == 3

----------------------------------------------------------------------------
(* JavaScript values.  An optional value is Undef or Some(v). *)

Undef == <<>>
Some(v) == <<v>>

\* !!s for an optional string: undefined and '' are falsy.
TruthyStr(o) == o # Undef /\ o[1] # ""
\* !!n for an optional number: undefined and 0 are falsy.
TruthyNum(o) == o # Undef /\ o[1] # 0

\* a || b || dflt over optional numbers.
OrNum(a, b) == IF TruthyNum(a) THEN a ELSE b

Range(s) == { s[i] : i \in DOMAIN s }

\* A string-keyed object as a function; obj[k] = v and delete obj[k].
SetKey(f, k, v) == [x \in (DOMAIN f) \cup {k} |-> IF x = k THEN v ELSE f[x]]
DeleteKey(f, k) == [x \in (DOMAIN f) \ {k} |-> f[x]]
EmptyObject == [x \in {} |-> Undef]


----------------------------------------------------------------------------
(* lib/config: the flat-file store. *)

\* defaultConfig as the module is loaded: { collections: {} }.  An absent
\* apiTokens key reads as the empty list everywhere it is used
\* (config.apiTokens || [], config.apiTokens?.length || 0), so the model
\* keeps one empty sequence for both.
InitialConfig == [collections |-> EmptyObject, apiTokens |-> <<>>]

\* loadConfig returns the shared defaultConfig object: there is no file, or
\* reading or parsing it threw and the catch took over.
LoadsDefault == configFile = Undef \/ disk = "readFails"

\* loadConfig: the parsed file if it exists and reads, else defaultConfig.
loadConfig == IF LoadsDefault THEN defaultConfig ELSE configFile[1]

\* Bun.write of saveConfig throws.
WriteFails == disk = "writeFails"

\* saveConfig(config) after config, the object loadConfig returned, was changed
\* in place: when that object is defaultConfig itself the change stays in it,
\* whether or not the write succeeds.
saveConfig(config) ==
  /\ configFile' = IF WriteFails THEN configFile ELSE Some(config)
  /\ defaultConfig' = IF LoadsDefault THEN config ELSE defaultConfig

getCollectionConfig(name) ==
  LET config == loadConfig
  IN IF name \in DOMAIN config.collections THEN Some(config.collections[name]) ELSE Undef

setCollectionConfig(collection) ==
  LET config == loadConfig
  IN saveConfig([config EXCEPT !.collections = SetKey(@, collection.name, collection)])

\* removeCollectionConfig saving the config with the entry still in it.
removeCollectionConfigKeeps(name) == saveConfig(loadConfig)

removeCollectionConfig(name) ==
  LET config == loadConfig
  IN saveConfig([config EXCEPT !.collections = DeleteKey(@, name)])

----------------------------------------------------------------------------
(* lib/tokens: the credential store. *)

\* The n-th value of generateToken: 75 random alphanumerics, a fresh string
\* each time.
generateToken(n) == "tok" \o ToString(n)

\* The n-th value of crypto.randomUUID.
randomUUID(n) == "id" \o ToString(n)

\* hashToken: the hex SHA-256 digest of the token: one-way, and no two of the
\* strings used here share a digest.
hashToken(token) == "sha256(" \o token \o ")"

verifyToken(token, hash) == hashToken(token) = hash

InfoOf(t) == [id |-> t.id, name |-> t.name, createdAt |-> t.createdAt]

\* listApiTokens returning the stored records as they are.
listApiTokensWithHashes == loadConfig.apiTokens

listApiTokens ==
  LET tokens == loadConfig.apiTokens
  IN [i \in DOMAIN tokens |-> InfoOf(tokens[i])]

getApiTokensWithHashes == loadConfig.apiTokens

\* hasApiTokens that remembers a token was once created.
hasApiTokensEverIssued == issued > 0

hasApiTokens == Len(loadConfig.apiTokens) > 0

validateBearerToken(bearerToken) ==
  LET tokens == getApiTokensWithHashes
  IN \E i \in DOMAIN tokens : verifyToken(bearerToken, tokens[i].tokenHash)

getApiToken(id) ==
  LET tokens == loadConfig.apiTokens
      found == SelectSeq(tokens, LAMBDA t : t.id = id)
  IN IF found = <<>> THEN Undef ELSE Some(InfoOf(Head(found)))

\* The record createApiToken pushes for the n-th token.
NewToken(name, n) ==
  [id |-> randomUUID(n), name |-> name,
   tokenHash |-> hashToken(generateToken(n)), createdAt |-> "ts"]

\* createApiToken(name): push the new token, save; returns {token, info}.
createApiToken(name) ==
  LET config == loadConfig
      newToken == NewToken(name, issued + 1)
  IN /\ issued' = issued + 1
     /\ saveConfig([config EXCEPT !.apiTokens = Append(@, newToken)])

CreateResult(name, n) ==
  [token |-> generateToken(n), info |-> InfoOf(NewToken(name, n))]

\* What deleteApiToken(id) leaves in config.apiTokens.
TokensWithout(id) == SelectSeq(loadConfig.apiTokens, LAMBDA t : t.id # id)

\* deleteApiToken(id): false, and nothing saved, when no token has that id.
deleteApiTokenFound(id) == Len(TokensWithout(id)) # Len(loadConfig.apiTokens)

deleteApiToken(id) ==
  IF deleteApiTokenFound(id)
  THEN saveConfig([loadConfig EXCEPT !.apiTokens = TokensWithout(id)])
  ELSE UNCHANGED <<configFile, defaultConfig>>

----------------------------------------------------------------------------
(* Requests and responses. *)

\* A path is the sequence of its segments: "/" is <<>>, "/api-tokens/id1" is
\* <<"api-tokens", "id1">>.
Root == <<>>
HealthPath == <<"health">>

\* path.startsWith('/family').
StartsWith(path, family) == Len(path) >= 1 /\ path[1] = family

\* An Authorization header is Undef (absent) or Some of its first seven
\* characters and what follows them.
StartsWithBearer(authHeader) == authHeader[1].head = "Bearer "
Substring7(authHeader) == authHeader[1].tail
HeaderTruthy(authHeader) == authHeader # Undef

Json(handler, status, data) ==
  [handler |-> handler, status |-> status, kind |-> "json", success |-> TRUE,
   data |-> Some(data), error |-> <<>>, cors |-> TRUE]

\* error(message, status): message is the sequence of the parts it is built of.
ErrorResponse(handler, status, message) ==
  [handler |-> handler, status |-> status, kind |-> "json", success |-> FALSE,
   data |-> Undef, error |-> message, cors |-> TRUE]

\* The body of a response: of a streamed one, the chunks read from the
\* upstream body so far and whether it is still read ("reading"), has ended
\* or has failed; the chunks handed downstream so far and whether the
\* downstream is open, closed or errored.
NoStream == [state |-> "none", source |-> "none", upstream |-> <<>>, enqueued |-> <<>>]
StreamOf(resp) ==
  IF resp.kind = "stream"
  THEN [state |-> "open", source |-> "reading", upstream |-> <<>>, enqueued |-> <<>>]
  ELSE NoStream

\* What a handler answers after its saveConfig: its own response, or the 500
\* of its catch when the write threw.
Saved(handler, resp) ==
  IF WriteFails THEN ErrorResponse(handler, 500, <<"Error: EACCES: permission denied">>)
  ELSE resp

Respond(method, path, authHeader, body, resp, made) ==
  /\ request' = [method |-> method, path |-> path, authHeader |-> authHeader,
                 body |-> body]
  /\ response' = resp
  /\ calls' = made
  /\ stream' = StreamOf(resp)

----------------------------------------------------------------------------
(* server: the auth middleware of fetch. *)

\* AuthGate with /api-tokens left open to requests without a Bearer header.
AuthGateTokensRouteOpen(authHeader, path) ==
  LET hasTokens == hasApiTokens
      isApiTokensRoute == StartsWith(path, "api-tokens")
  IN IF hasTokens
     THEN IF ~HeaderTruthy(authHeader) \/ ~StartsWithBearer(authHeader)
          THEN IF ~isApiTokensRoute /\ path # HealthPath
               THEN Some(ErrorResponse("auth", 401,
                           <<"Authorization header with Bearer token required">>))
               ELSE Undef
          ELSE IF ~validateBearerToken(Substring7(authHeader))
               THEN Some(ErrorResponse("auth", 401, <<"Invalid bearer token">>))
               ELSE Undef
     ELSE Undef

\* The 401 the middleware answers with, or Undef when the request goes on.
AuthGate(authHeader, path) ==
  LET hasTokens == hasApiTokens
      isApiTokensRoute == StartsWith(path, "api-tokens")
  IN IF hasTokens
     THEN IF ~HeaderTruthy(authHeader) \/ ~StartsWithBearer(authHeader)
          THEN IF isApiTokensRoute \/ path # HealthPath
               THEN Some(ErrorResponse("auth", 401,
                           <<"Authorization header with Bearer token required">>))
               ELSE Undef
          ELSE IF ~validateBearerToken(Substring7(authHeader))
               THEN Some(ErrorResponse("auth", 401, <<"Invalid bearer token">>))
               ELSE Undef
     ELSE Undef

\* The branch of fetch that answers a request the middleware let through.
Route(method, path) ==
  IF method = "OPTIONS" THEN "preflight"
  ELSE IF path = HealthPath \/ path = Root THEN "health"
  ELSE IF StartsWith(path, "api-tokens") THEN "apiTokens"
  ELSE IF StartsWith(path, "collections") THEN "collections"
  ELSE IF StartsWith(path, "models") THEN "models"
  ELSE IF path = <<"query">> THEN "query"
  ELSE IF path \in {<<"embed">>, <<"generate">>, <<"chat">>} THEN "llm"
  ELSE "none"

\* The request passed the CORS branch and the middleware and reaches `route`.
Reaches(method, path, authHeader, route) ==
  /\ method # "OPTIONS"
  /\ Route(method, path) = route
  /\ AuthGate(authHeader, path) = Undef

----------------------------------------------------------------------------
(* server: the CORS branch, the health check and the final 404 of fetch. *)

Preflight(method, path, authHeader) ==
  /\ method = "OPTIONS"
  /\ Respond(method, path, authHeader, Undef,
       [handler |-> "preflight", status |-> 200, kind |-> "empty", success |-> TRUE,
        data |-> Undef, error |-> <<>>, cors |-> TRUE], <<>>)
  /\ UNCHANGED <<storeVars, backendVars, worldVars>>

\* The middleware answers 401; no branch below it runs.
Unauthorized(method, path, authHeader) ==
  /\ method # "OPTIONS"
  /\ AuthGate(authHeader, path) # Undef
  /\ Respond(method, path, authHeader, Undef, AuthGate(authHeader, path)[1], <<>>)
  /\ UNCHANGED <<storeVars, backendVars, worldVars>>

HealthCheck(method, path, authHeader) ==
  /\ Reaches(method, path, authHeader, "health")
  /\ Respond(method, path, authHeader, Undef,
       Json("health", 200, [status |-> "ok", authEnabled |-> hasApiTokens]), <<>>)
  /\ UNCHANGED <<storeVars, backendVars, worldVars>>

\* What the route handlers below answer for a (method, path) none of their
\* branches takes: null, which fetch turns into 404 Not found.
NotFoundResponse == ErrorResponse("none", 404, <<"Not found">>)

----------------------------------------------------------------------------
(* routes/api-tokens: handleApiTokensRoute. *)

\* String.prototype.trim on the names used here.
Trim(s) == IF s = " " THEN "" ELSE IF s = " ci " THEN "ci" ELSE s

\* /^\/api-tokens\/([^\/]+)$/
TokenMatch(path) == Len(path) = 2 /\ path[1] = "api-tokens"

ListTokens(method, path, authHeader) ==
  /\ path = <<"api-tokens">> /\ method = "GET"
  /\ Reaches(method, path, authHeader, "apiTokens")
  /\ Respond(method, path, authHeader, Undef,
       Json("apiTokens", 200, listApiTokens), <<>>)
  /\ UNCHANGED <<storeVars, backendVars, worldVars>>

\* body is Undef when the request carries no JSON: req.json() throws.
CreateToken(method, path, authHeader, body) ==
  /\ path = <<"api-tokens">> /\ method = "POST"
  /\ Reaches(method, path, authHeader, "apiTokens")
  /\ IF body = Undef
     THEN /\ Respond(method, path, authHeader, body,
               ErrorResponse("apiTokens", 500, <<"SyntaxError">>), <<>>)
          /\ UNCHANGED storeVars
     ELSE IF ~TruthyStr(body[1].name)
     THEN /\ Respond(method, path, authHeader, body,
               ErrorResponse("apiTokens", 400, <<"name is required">>), <<>>)
          /\ UNCHANGED storeVars
     ELSE IF Trim(body[1].name[1]) = ""
     THEN /\ Respond(method, path, authHeader, body,
               ErrorResponse("apiTokens", 400, <<"name cannot be empty">>), <<>>)
          /\ UNCHANGED storeVars
     ELSE /\ issued < MaxIssued
          /\ createApiToken(Trim(body[1].name[1]))
          /\ LET result == CreateResult(Trim(body[1].name[1]), issued + 1)
             IN /\ Respond(method, path, authHeader, body,
                     Saved("apiTokens",
                       Json("apiTokens", 201,
                            [id |-> result.info.id, name |-> result.info.name,
                             createdAt |-> result.info.createdAt,
                             token |-> result.token])), <<>>)
                /\ handedOut' = IF WriteFails THEN handedOut
                                ELSE handedOut \cup
                                       {[id |-> result.info.id, token |-> result.token]}
          /\ UNCHANGED revoked
  /\ UNCHANGED <<backendVars, worldVars>>

GetToken(method, path, authHeader) ==
  /\ TokenMatch(path) /\ method = "GET"
  /\ Reaches(method, path, authHeader, "apiTokens")
  /\ LET token == getApiToken(path[2])
     IN Respond(method, path, authHeader, Undef,
          IF token = Undef
          THEN ErrorResponse("apiTokens", 404, <<"Token not found">>)
          ELSE Json("apiTokens", 200, token[1]), <<>>)
  /\ UNCHANGED <<storeVars, backendVars, worldVars>>

DeleteToken(method, path, authHeader) ==
  /\ TokenMatch(path) /\ method = "DELETE"
  /\ Reaches(method, path, authHeader, "apiTokens")
  /\ deleteApiToken(path[2])
  /\ Respond(method, path, authHeader, Undef,
       IF deleteApiTokenFound(path[2])
       THEN Saved("apiTokens",
              [handler |-> "apiTokens", status |-> 200, kind |-> "json",
               success |-> TRUE, data |-> Undef, error |-> <<>>, cors |-> TRUE])
       ELSE ErrorResponse("apiTokens", 404, <<"Token not found">>), <<>>)
  /\ revoked' = IF deleteApiTokenFound(path[2]) /\ ~WriteFails
                THEN revoked \cup {path[2]} ELSE revoked
  /\ UNCHANGED <<issued, handedOut, backendVars, worldVars>>

\* No branch of handleApiTokensRoute takes the request: it returns null.
ApiTokensNoMatch(method, path, authHeader) ==
  /\ ~(path = <<"api-tokens">> /\ method \in {"GET", "POST"})
  /\ ~(TokenMatch(path) /\ method \in {"GET", "DELETE"})
  /\ Reaches(method, path, authHeader, "apiTokens")
  /\ Respond(method, path, authHeader, Undef, NotFoundResponse, <<>>)
  /\ UNCHANGED <<storeVars, backendVars, worldVars>>

\* No route claims the path.
NotFound(method, path, authHeader) ==
  /\ Reaches(method, path, authHeader, "none")
  /\ Respond(method, path, authHeader, Undef, NotFoundResponse, <<>>)
  /\ UNCHANGED <<storeVars, backendVars, worldVars>>

----------------------------------------------------------------------------
(* The backends.  env says how this request's backend calls end: showOk,     *)
(* pullOk, embedOk, chatOk, probeOk, createOk, deleteOk are FALSE when that  *)
(* HTTP call fails, hits is the number of points the search returns, or -1   *)
(* when the search call fails.                                               *)

\* ollama.modelExists(name): showModel succeeded; any failure reads as absent.
modelExists(name, env) == name \in ollamaModels /\ env.showOk

\* The length of the vectors a model embeds to.
ModelDim(model) == IF model = "nomic" THEN 768 ELSE 384

\* qdrant.collectionExists(name): getCollection succeeded; any failure reads
\* as absent.
collectionExists(name, env) == name \in qdrantCollections /\ env.probeOk

\* The i-th point of a search result, best first.
SearchResult(i) ==
  [id |-> i, score |-> 100 - i,
   payload |-> [content |-> "doc" \o ToString(i)]]

SearchResults(n) == [i \in 1..n |-> SearchResult(i)]

\* The ids of the points a collection holds.
PointIds(collection) == { pt[2] : pt \in { q \in qdrantPoints : q[1] = collection } }

\* A search of a collection returns no more points than the collection holds.
CanReturn(collection, env) ==
  collection \in qdrantCollections => env.hits <= Cardinality(PointIds(collection))

ShowCall(name) == [fn |-> "showModel", name |-> name]
PullCall(name) == [fn |-> "pullModelSync", name |-> name]
ConfigCall(name) == [fn |-> "getCollectionConfig", name |-> name]
EmbedCall(model, input) == [fn |-> "embed", model |-> model, input |-> input]
ChatCall(req) == [fn |-> "chat", request |-> req]

\* qdrant.searchPoints(collection, params): the request it sends carries
\* limit: params.limit || 10.
DefaultSearchLimit == 10
searchPoints(collection, limit) ==
  [fn |-> "searchPoints", collection |-> collection,
   limit |-> OrNum(limit, Some(DefaultSearchLimit))[1]]

\* What one part of a handler hands to the next: the response if the handler
\* has returned, the calls made so far, and the models now held locally.
Done(resp, made, models) == [resp |-> Some(resp), calls |-> made, models |-> models]
Going(made, models) == [resp |-> Undef, calls |-> made, models |-> models]

\* AutoPull that logs a failed pull and goes on.
AutoPullIgnoresFailure(handler, model, env) ==
  IF modelExists(model, env)
  THEN Going(<<ShowCall(model)>>, ollamaModels)
  ELSE Going(<<ShowCall(model), PullCall(model)>>,
             IF env.pullOk THEN ollamaModels \cup {model} ELSE ollamaModels)

\* String(e) of the error a failed pullModelSync throws: its own Error when
\* the inference server answers with an error status, the error of fetch or
\* of response.json() when the call itself fails.
PullError(model, env) ==
  IF env.pullRejects THEN <<"TypeError: fetch failed">>
  ELSE <<"Error: Failed to pull model \"", model, "\": ", "pull refused">>

\* The auto-pull block shared by the handlers: probe, pull when absent.
\* `failed` is the response the handler gives when the pull fails.
AutoPull(handler, model, env) ==
  IF modelExists(model, env)
  THEN Going(<<ShowCall(model)>>, ollamaModels)
  ELSE IF env.pullOk
       THEN Going(<<ShowCall(model), PullCall(model)>>, ollamaModels \cup {model})
       ELSE Done(ErrorResponse(handler, 400,
                   <<"Model \"", model, "\" not found and failed to pull: ">>
                     \o PullError(model, env)),
                 <<ShowCall(model), PullCall(model)>>, ollamaModels)

----------------------------------------------------------------------------
(* routes/query: handleQueryRoute. *)

QueryDefaultLimit == 5

OrStr(a, b) == IF TruthyStr(a) THEN a ELSE b

\* body.messages?.filter(m => m.role === 'user').pop()?.content
LastUserContent(body) ==
  IF body.messages = Undef THEN Undef
  ELSE LET users == SelectSeq(body.messages[1], LAMBDA m : m.role = "user")
       IN IF users = <<>> THEN Undef ELSE Some(users[Len(users)].content)

\* body.query || body.prompt || <content of the last user message>
QueryText(body) == OrStr(body.query, OrStr(body.prompt, LastUserContent(body)))

\* NoMessages as !body.messages: an empty list counts as messages.
NoMessagesUndefinedOnly(body) == body.messages = Undef

\* !body.messages?.length
NoMessages(body) == body.messages = Undef \/ Len(body.messages[1]) = 0

\* ResolveLimit with limit taking precedence over top_k.
ResolveLimitLimitFirst(body, dflt) == OrNum(body.limit, OrNum(body.top_k, Some(dflt)))

\* body.top_k || body.limit || dflt
ResolveLimit(body, dflt) == OrNum(body.top_k, OrNum(body.limit, Some(dflt)))

\* searchResults.map((r, i) => `[${i + 1}] ${r.payload?.content || ''}`).join('\n\n')
RECURSIVE ContextBlock(_, _)
ContextBlock(results, i) ==
  IF i > Len(results) THEN ""
  ELSE "[" \o ToString(i) \o "] " \o results[i].payload.content
       \o (IF i < Len(results) THEN "\n\n" ELSE "")
       \o ContextBlock(results, i + 1)

\* SourcesOf listing the results last first.
SourcesOfReversed(results) ==
  [i \in DOMAIN results |->
     [id |-> results[Len(results) + 1 - i].id,
      score |-> results[Len(results) + 1 - i].score,
      content |-> results[Len(results) + 1 - i].payload.content]]

SourcesOf(results) ==
  [i \in DOMAIN results |->
     [id |-> results[i].id, score |-> results[i].score,
      content |-> results[i].payload.content]]

RagSystemPrompt ==
  "You are a helpful assistant. Answer the question based on the provided context. If the context doesn't contain relevant information, say so."
PlainSystemPrompt == "You are a helpful assistant."

SystemPrompt(body) ==
  IF TruthyStr(body.system) THEN body.system[1]
  ELSE IF TruthyStr(body.collection) THEN RagSystemPrompt ELSE PlainSystemPrompt

\* messages.findIndex(m => m.role === 'system'), 0 when there is none.
SystemIdx(messages) ==
  IF \E i \in DOMAIN messages : messages[i].role = "system"
  THEN CHOOSE i \in DOMAIN messages :
         /\ messages[i].role = "system"
         /\ \A j \in 1..(i - 1) : messages[j].role # "system"
  ELSE 0

\* The messages sent to chat.  queryText is an optional string.
BuildMessages(body, context, queryText) ==
  IF body.messages # Undef
  THEN LET messages == body.messages[1]
           systemIdx == SystemIdx(messages)
       IN IF context = "" THEN messages
          ELSE IF systemIdx > 0
          THEN [messages EXCEPT ![systemIdx].content = @ \o "\n\nContext:\n" \o context]
          ELSE <<[role |-> "system",
                  content |-> SystemPrompt(body) \o "\n\nContext:\n" \o context]>>
               \o messages
  ELSE <<[role |-> "system", content |-> SystemPrompt(body)],
         [role |-> "user",
          content |-> IF context # ""
                      THEN "Context:\n" \o context \o "\n\nQuestion: " \o queryText[1]
                      ELSE queryText[1]]>>

\* body.stream !== false
Streaming(body) == body.stream # Some(FALSE)

\* The JSON the chat backend answers a non-streaming call with.
ChatData == [message |-> [role |-> "assistant", content |-> "answer"], done |-> TRUE]

\* QueryResponse appending or merging the sources whether or not there are any.
QueryResponseAlwaysSources(body, sources) ==
  IF Streaming(body)
  THEN [handler |-> "query", status |-> 200, kind |-> "stream", success |-> TRUE,
        data |-> Undef, error |-> <<>>, cors |-> FALSE,
        appended |-> <<[sources |-> sources]>>]
  ELSE Json("query", 200,
            [message |-> ChatData.message, done |-> ChatData.done, sources |-> sources])

\* The response once chat has answered.
QueryResponse(body, sources) ==
  IF Streaming(body)
  THEN [handler |-> "query", status |-> 200, kind |-> "stream", success |-> TRUE,
        data |-> Undef, error |-> <<>>, cors |-> FALSE,
        appended |-> IF Len(sources) > 0 THEN <<[sources |-> sources]>> ELSE <<>>]
  ELSE Json("query", 200,
            IF Len(sources) > 0
            THEN [message |-> ChatData.message, done |-> ChatData.done,
                  sources |-> sources]
            ELSE ChatData)

\* Lines 108-198: build the messages, call chat, answer.
QueryGenerate(body, queryText, results, made, models, env) ==
  LET context == ContextBlock(results, 1)
      sources == SourcesOf(results)
      chat == ChatCall([model |-> body.model[1],
                        messages |-> BuildMessages(body, context, queryText),
                        stream |-> Streaming(body)])
  IN IF ~env.chatOk
     THEN Done(ErrorResponse("query", 500, <<"Error: Ollama chat error">>),
               Append(made, chat), models)
     ELSE Done(QueryResponse(body, sources), Append(made, chat), models)

\* QueryRetrieve answering without retrieval when the collection is unknown.
QueryRetrieveFallsBack(body, queryText, made, models, env) ==
  IF ~TruthyStr(body.collection)
  THEN QueryGenerate(body, queryText, <<>>, made, models, env)
  ELSE LET collection == body.collection[1]
           cfg == getCollectionConfig(collection)
           looked == Append(made, ConfigCall(collection))
       IN IF cfg = Undef
          THEN QueryGenerate(body, queryText, <<>>, looked, models, env)
          ELSE LET embedded == Append(looked, EmbedCall(cfg[1].embeddingModel, queryText))
                   searched == Append(embedded,
                                 searchPoints(collection,
                                              ResolveLimit(body, QueryDefaultLimit)))
               IN IF ~env.embedOk
                  THEN Done(ErrorResponse("query", 500, <<"Error: Ollama error">>),
                            embedded, models)
                  ELSE IF env.hits < 0
                  THEN Done(ErrorResponse("query", 500, <<"Error: Qdrant error">>),
                            searched, models)
                  ELSE QueryGenerate(body, queryText, SearchResults(env.hits),
                                     searched, models, env)

\* Lines 77-106: the retrieval block, then the rest.
QueryRetrieve(body, queryText, made, models, env) ==
  IF ~TruthyStr(body.collection)
  THEN QueryGenerate(body, queryText, <<>>, made, models, env)
  ELSE LET collection == body.collection[1]
           cfg == getCollectionConfig(collection)
           looked == Append(made, ConfigCall(collection))
       IN IF cfg = Undef
          THEN Done(ErrorResponse("query", 404,
                      <<"Collection \"", collection, "\" not found">>),
                    looked, models)
          ELSE LET embedded == Append(looked, EmbedCall(cfg[1].embeddingModel, queryText))
                   searched == Append(embedded,
                                 searchPoints(collection,
                                              ResolveLimit(body, QueryDefaultLimit)))
               IN IF ~env.embedOk
                  THEN Done(ErrorResponse("query", 500, <<"Error: Ollama error">>),
                            embedded, models)
                  ELSE IF env.hits < 0
                  THEN Done(ErrorResponse("query", 500, <<"Error: Qdrant error">>),
                            searched, models)
                  ELSE QueryGenerate(body, queryText, SearchResults(env.hits),
                                     searched, models, env)

\* handleQueryRoute(req).  body is Undef when req.json() throws.
handleQueryRoute(method, body, env) ==
  IF method # "POST"
  THEN Done(ErrorResponse("query", 405, <<"Method not allowed">>), <<>>, ollamaModels)
  ELSE IF body = Undef
  THEN Done(ErrorResponse("query", 500, <<"SyntaxError">>), <<>>, ollamaModels)
  ELSE IF ~TruthyStr(body[1].model)
  THEN Done(ErrorResponse("query", 400, <<"model required">>), <<>>, ollamaModels)
  ELSE IF ~TruthyStr(QueryText(body[1])) /\ NoMessages(body[1])
  THEN Done(ErrorResponse("query", 400, <<"prompt, query, or messages required">>),
            <<>>, ollamaModels)
  ELSE LET pulled == AutoPull("query", body[1].model[1], env)
       IN IF pulled.resp # Undef THEN pulled
          ELSE QueryRetrieve(body[1], QueryText(body[1]), pulled.calls, pulled.models, env)

Query(method, path, authHeader, body, env) ==
  /\ Reaches(method, path, authHeader, "query")
  /\ (body # Undef /\ body[1].collection # Undef)
       => CanReturn(body[1].collection[1], env)
  /\ LET out == handleQueryRoute(method, body, env)
     IN /\ Respond(method, path, authHeader, body, out.resp[1], out.calls)
        /\ ollamaModels' = out.models
  /\ UNCHANGED <<storeVars, qdrantCollections, qdrantPoints, worldVars>>

----------------------------------------------------------------------------
(* routes/collections: handleCollectionsRoute. *)

SearchDefaultLimit == 10

\* /^\/collections\/([^\/]+)$/
CollectionMatch(path) == Len(path) = 2 /\ path[1] = "collections"
\* /^\/collections\/([^\/]+)\/documents$/
DocumentsMatch(path) ==
  Len(path) = 3 /\ path[1] = "collections" /\ path[3] = "documents"
\* /^\/collections\/([^\/]+)\/search$/
SearchMatch(path) == Len(path) = 3 /\ path[1] = "collections" /\ path[3] = "search"

ListCollections(method, path, authHeader) ==
  /\ path = <<"collections">> /\ method = "GET"
  /\ Reaches(method, path, authHeader, "collections")
  /\ Respond(method, path, authHeader, Undef,
       Json("collections", 200,
            { loadConfig.collections[n] : n \in DOMAIN loadConfig.collections }), <<>>)
  /\ UNCHANGED <<storeVars, backendVars, worldVars>>

\* The dimension block of POST /collections (lines 81-102).
ProbeDimension(body, env) ==
  IF TruthyNum(body.dimension) THEN Going(<<>>, ollamaModels)
  ELSE LET model == body.embeddingModel[1]
           pulled == AutoPull("collections", model, env)
           embedded == Append(pulled.calls, EmbedCall(model, Some("test")))
       IN IF pulled.resp # Undef THEN pulled
          ELSE IF ~env.embedOk
          THEN Done(ErrorResponse("collections", 400,
                      <<"Failed to get embedding dimension from \"", model, "\"">>),
                    embedded, pulled.models)
          ELSE Going(embedded, pulled.models)

DimensionOf(body) ==
  IF TruthyNum(body.dimension) THEN body.dimension[1]
  ELSE ModelDim(body.embeddingModel[1])

NewCollectionConfig(body) ==
  [name |-> body.name[1], embeddingModel |-> body.embeddingModel[1],
   dimension |-> DimensionOf(body), createdAt |-> "ts"]

ExistsCall(name) == [fn |-> "collectionExists", name |-> name]
CreateCall(name, dimension) ==
  [fn |-> "createCollection", name |-> name, dimension |-> dimension]
DeleteCall(name) == [fn |-> "deleteCollection", name |-> name]
GetCall(name) == [fn |-> "getCollection", name |-> name]

\* createCollectionOutcome without the existence check, on a backend that
\* replaces a collection created again.
createCollectionOutcomeOverwrites(body, env) ==
  IF body = Undef
  THEN [out |-> Done(ErrorResponse("collections", 500, <<"SyntaxError">>), <<>>,
                     ollamaModels), created |-> FALSE]
  ELSE IF ~TruthyStr(body[1].name)
  THEN [out |-> Done(ErrorResponse("collections", 400, <<"name required">>), <<>>,
                     ollamaModels), created |-> FALSE]
  ELSE IF ~TruthyStr(body[1].embeddingModel)
  THEN [out |-> Done(ErrorResponse("collections", 400, <<"embeddingModel required">>),
                     <<>>, ollamaModels), created |-> FALSE]
  ELSE LET b == body[1]
           probed == ProbeDimension(b, env)
           checked == Append(probed.calls, ExistsCall(b.name[1]))
           made == Append(checked, CreateCall(b.name[1], DimensionOf(b)))
       IN IF probed.resp # Undef THEN [out |-> probed, created |-> FALSE]
          ELSE IF ~env.createOk
          THEN [out |-> Done(ErrorResponse("collections", 500, <<"Error: Qdrant error">>),
                             made, probed.models),
                created |-> FALSE]
          ELSE [out |-> Done(Json("collections", 201, NewCollectionConfig(b)),
                             made, probed.models),
                created |-> TRUE]

\* POST /collections.  The last field of the result says whether the handler
\* got as far as creating the backend collection and writing the config.
createCollectionOutcome(body, env) ==
  IF body = Undef
  THEN [out |-> Done(ErrorResponse("collections", 500, <<"SyntaxError">>), <<>>,
                     ollamaModels), created |-> FALSE]
  ELSE IF ~TruthyStr(body[1].name)
  THEN [out |-> Done(ErrorResponse("collections", 400, <<"name required">>), <<>>,
                     ollamaModels), created |-> FALSE]
  ELSE IF ~TruthyStr(body[1].embeddingModel)
  THEN [out |-> Done(ErrorResponse("collections", 400, <<"embeddingModel required">>),
                     <<>>, ollamaModels), created |-> FALSE]
  ELSE LET b == body[1]
           probed == ProbeDimension(b, env)
           checked == Append(probed.calls, ExistsCall(b.name[1]))
           made == Append(checked, CreateCall(b.name[1], DimensionOf(b)))
       IN IF probed.resp # Undef THEN [out |-> probed, created |-> FALSE]
          ELSE IF collectionExists(b.name[1], env)
          THEN [out |-> Done(ErrorResponse("collections", 409,
                               <<"Collection \"", b.name[1], "\" already exists">>),
                             checked, probed.models),
                created |-> FALSE]
          ELSE IF ~env.createOk \/ b.name[1] \in qdrantCollections
          THEN [out |-> Done(ErrorResponse("collections", 500, <<"Error: Qdrant error">>),
                             made, probed.models),
                created |-> FALSE]
          ELSE [out |-> Done(Json("collections", 201, NewCollectionConfig(b)),
                             made, probed.models),
                created |-> TRUE]

\* setCollectionConfig running although createCollection threw.
SavesConfigRegardless(res) ==
  res.created \/ (res.out.calls # <<>>
                   /\ res.out.calls[Len(res.out.calls)].fn = "createCollection")

\* Line 120 is reached: `await qdrant.createCollection(...)` did not throw.
SavesConfig(res) == res.created

CreateCollection(method, path, authHeader, body, env) ==
  /\ path = <<"collections">> /\ method = "POST"
  /\ Reaches(method, path, authHeader, "collections")
  /\ LET res == createCollectionOutcome(body, env)
     IN /\ Respond(method, path, authHeader, body,
             IF res.created THEN Saved("collections", res.out.resp[1])
             ELSE res.out.resp[1], res.out.calls)
        /\ ollamaModels' = res.out.models
        /\ qdrantCollections' = IF res.created
                                THEN qdrantCollections \cup {body[1].name[1]}
                                ELSE qdrantCollections
        /\ IF SavesConfig(res)
           THEN setCollectionConfig(NewCollectionConfig(body[1]))
           ELSE UNCHANGED <<configFile, defaultConfig>>
  /\ UNCHANGED <<issued, handedOut, revoked, qdrantPoints, worldVars>>

GetCollection(method, path, authHeader, env) ==
  /\ CollectionMatch(path) /\ method = "GET"
  /\ Reaches(method, path, authHeader, "collections")
  /\ LET name == path[2]
         cfg == getCollectionConfig(name)
     IN IF cfg = Undef
        THEN Respond(method, path, authHeader, Undef,
               ErrorResponse("collections", 404,
                 <<"Collection \"", name, "\" not found">>), <<ConfigCall(name)>>)
        ELSE IF ~(name \in qdrantCollections /\ env.probeOk)
        THEN Respond(method, path, authHeader, Undef,
               ErrorResponse("collections", 500, <<"Error: Qdrant error">>),
               <<ConfigCall(name), GetCall(name)>>)
        ELSE Respond(method, path, authHeader, Undef,
               Json("collections", 200, cfg[1]), <<ConfigCall(name), GetCall(name)>>)
  /\ UNCHANGED <<storeVars, backendVars, worldVars>>

\* removeCollectionConfig running although deleteCollection threw.
RemovesConfigRegardless(env) == TRUE

\* Line 158 is reached: `await qdrant.deleteCollection(name)` did not throw.
RemovesConfig(env) == env.deleteOk

\* DELETE /collections/:name: the backend collection, then the registry entry.
DeleteCollection(method, path, authHeader, env) ==
  /\ CollectionMatch(path) /\ method = "DELETE"
  /\ Reaches(method, path, authHeader, "collections")
  /\ LET name == path[2]
     IN IF ~env.deleteOk
        THEN /\ Respond(method, path, authHeader, Undef,
                  ErrorResponse("collections", 500, <<"Error: Qdrant error">>),
                  <<DeleteCall(name)>>)
             /\ UNCHANGED <<qdrantCollections, qdrantPoints>>
             /\ IF RemovesConfig(env) THEN removeCollectionConfig(name)
                ELSE UNCHANGED <<configFile, defaultConfig>>
        ELSE /\ Respond(method, path, authHeader, Undef,
                  Saved("collections",
                    [handler |-> "collections", status |-> 200, kind |-> "json",
                     success |-> TRUE, data |-> Undef, error |-> <<>>, cors |-> TRUE]),
                  <<DeleteCall(name)>>)
             /\ qdrantCollections' = qdrantCollections \ {name}
             /\ qdrantPoints' = { pt \in qdrantPoints : pt[1] # name }
             /\ removeCollectionConfig(name)
  /\ UNCHANGED <<issued, handedOut, revoked, ollamaModels, worldVars>>

\* results.map(r => ({id, content, score, metadata: payload without content}))
FormatResults(results) ==
  [i \in DOMAIN results |->
     [id |-> results[i].id, content |-> results[i].payload.content,
      score |-> results[i].score,
      metadata |-> [k \in (DOMAIN results[i].payload) \ {"content"} |->
                      results[i].payload[k]]]]

\* POST /collections/:name/search.
searchOutcome(collectionName, body, env) ==
  IF body = Undef
  THEN Done(ErrorResponse("collections", 500, <<"SyntaxError">>), <<>>, ollamaModels)
  ELSE IF ~TruthyStr(body[1].query)
  THEN Done(ErrorResponse("collections", 400, <<"query required">>), <<>>, ollamaModels)
  ELSE LET cfg == getCollectionConfig(collectionName)
           looked == <<ConfigCall(collectionName)>>
       IN IF cfg = Undef
          THEN Done(ErrorResponse("collections", 404,
                      <<"Collection \"", collectionName, "\" not found">>),
                    looked, ollamaModels)
          ELSE LET embedded == Append(looked,
                                 EmbedCall(cfg[1].embeddingModel, body[1].query))
                   searched == Append(embedded,
                                 searchPoints(collectionName,
                                              ResolveLimit(body[1], SearchDefaultLimit)))
               IN IF ~env.embedOk
                  THEN Done(ErrorResponse("collections", 500, <<"Error: Ollama error">>),
                            embedded, ollamaModels)
                  ELSE IF env.hits < 0
                  THEN Done(ErrorResponse("collections", 500, <<"Error: Qdrant error">>),
                            searched, ollamaModels)
                  ELSE Done(Json("collections", 200,
                                 FormatResults(SearchResults(env.hits))),
                            searched, ollamaModels)

Search(method, path, authHeader, body, env) ==
  /\ SearchMatch(path) /\ method = "POST"
  /\ Reaches(method, path, authHeader, "collections")
  /\ CanReturn(path[2], env)
  /\ LET out == searchOutcome(path[2], body, env)
     IN Respond(method, path, authHeader, body, out.resp[1], out.calls)
  /\ UNCHANGED <<storeVars, backendVars, worldVars>>

----------------------------------------------------------------------------
(* routes/collections: the documents of a collection. *)

UpsertCall(collection, ids) ==
  [fn |-> "upsertPoints", collection |-> collection, ids |-> ids]
ScrollCall(collection) == [fn |-> "scrollPoints", collection |-> collection]
DeletePointsCall(collection, ids) ==
  [fn |-> "deletePoints", collection |-> collection, ids |-> ids]

\* body.documents || (body.content ? [body as RAGDocument] : [])
DocumentsOf(body) ==
  IF body.documents # Undef THEN body.documents[1]
  ELSE IF TruthyStr(body.content) THEN <<[id |-> body.id, content |-> body.content[1]]>>
  ELSE <<>>

\* crypto.randomUUID() of generateId: the k-th id generated, apart from every
\* id a caller supplies.
generateId(k) == 1000 + k

\* documents.map(doc => doc.id || generateId()): the ids of the points.  The
\* model inserts at most one document without a truthy id per request, so one
\* generated id is enough.
PointIdsOf(documents, generated) ==
  [i \in DOMAIN documents |->
     IF TruthyNum(documents[i].id) THEN documents[i].id[1] ELSE generated]

\* qdrant.upsertPoints and qdrant.deletePoints as the vector store applies them
\* to the points it holds: a point upserted under an id it holds replaces it.
upsertPoints(points, collection, ids) == points \cup { <<collection, id>> : id \in ids }
deletePoints(points, collection, ids) == points \ { <<collection, id>> : id \in ids }

\* POST /collections/:name/documents.
InsertDocuments(method, path, authHeader, body, env, generated) ==
  /\ DocumentsMatch(path) /\ method = "POST"
  /\ Reaches(method, path, authHeader, "collections")
  /\ \A c \in qdrantCollections : generated \notin PointIds(c)
  /\ LET collectionName == path[2]
         cfg == getCollectionConfig(collectionName)
     IN IF body = Undef
        THEN /\ Respond(method, path, authHeader, body,
                  ErrorResponse("collections", 500, <<"SyntaxError">>), <<>>)
             /\ UNCHANGED qdrantPoints
        ELSE IF Len(DocumentsOf(body[1])) = 0
        THEN /\ Respond(method, path, authHeader, body,
                  ErrorResponse("collections", 400, <<"documents required">>), <<>>)
             /\ UNCHANGED qdrantPoints
        ELSE IF cfg = Undef
        THEN /\ Respond(method, path, authHeader, body,
                  ErrorResponse("collections", 404,
                    <<"Collection \"", collectionName, "\" not found. Create it first.">>),
                  <<ConfigCall(collectionName)>>)
             /\ UNCHANGED qdrantPoints
        ELSE LET documents == DocumentsOf(body[1])
                 ids == PointIdsOf(documents, generated)
                 embedded == <<ConfigCall(collectionName),
                               EmbedCall(cfg[1].embeddingModel,
                                         [i \in DOMAIN documents |-> documents[i].content])>>
                 upserted == Append(embedded, UpsertCall(collectionName, ids))
             IN IF ~env.embedOk
                THEN /\ Respond(method, path, authHeader, body,
                          ErrorResponse("collections", 500, <<"Error: Ollama error">>),
                          embedded)
                     /\ UNCHANGED qdrantPoints
                ELSE IF ~env.pointsOk \/ collectionName \notin qdrantCollections
                THEN /\ Respond(method, path, authHeader, body,
                          ErrorResponse("collections", 500, <<"Error: Qdrant error">>),
                          upserted)
                     /\ UNCHANGED qdrantPoints
                ELSE /\ Respond(method, path, authHeader, body,
                          Json("collections", 200,
                               [inserted |-> Len(ids), ids |-> ids]), upserted)
                     /\ qdrantPoints' = upsertPoints(qdrantPoints, collectionName, Range(ids))
  /\ UNCHANGED <<storeVars, qdrantCollections, ollamaModels, worldVars>>

\* GET /collections/:name/documents.
ListDocuments(method, path, authHeader, env) ==
  /\ DocumentsMatch(path) /\ method = "GET"
  /\ Reaches(method, path, authHeader, "collections")
  /\ LET collectionName == path[2]
     IN IF ~env.pointsOk \/ collectionName \notin qdrantCollections
        THEN Respond(method, path, authHeader, Undef,
               ErrorResponse("collections", 500, <<"Error: Qdrant error">>),
               <<ScrollCall(collectionName)>>)
        ELSE Respond(method, path, authHeader, Undef,
               Json("collections", 200, [points |-> PointIds(collectionName)]),
               <<ScrollCall(collectionName)>>)
  /\ UNCHANGED <<storeVars, backendVars, worldVars>>

\* DELETE /collections/:name/documents.  body.ids is Undef, or Some of a
\* sequence of ids.
DeleteDocuments(method, path, authHeader, body, env) ==
  /\ DocumentsMatch(path) /\ method = "DELETE"
  /\ Reaches(method, path, authHeader, "collections")
  /\ LET collectionName == path[2]
     IN IF body = Undef
        THEN /\ Respond(method, path, authHeader, body,
                  ErrorResponse("collections", 500, <<"SyntaxError">>), <<>>)
             /\ UNCHANGED qdrantPoints
        ELSE IF body[1].ids = Undef
        THEN /\ Respond(method, path, authHeader, body,
                  ErrorResponse("collections", 400, <<"ids array required">>), <<>>)
             /\ UNCHANGED qdrantPoints
        ELSE IF ~env.pointsOk \/ collectionName \notin qdrantCollections
        THEN /\ Respond(method, path, authHeader, body,
                  ErrorResponse("collections", 500, <<"Error: Qdrant error">>),
                  <<DeletePointsCall(collectionName, body[1].ids[1])>>)
             /\ UNCHANGED qdrantPoints
        ELSE /\ Respond(method, path, authHeader, body,
                  [handler |-> "collections", status |-> 200, kind |-> "json",
                   success |-> TRUE, data |-> Undef, error |-> <<>>, cors |-> TRUE],
                  <<DeletePointsCall(collectionName, body[1].ids[1])>>)
             /\ qdrantPoints' = deletePoints(qdrantPoints, collectionName, Range(body[1].ids[1]))
  /\ UNCHANGED <<storeVars, qdrantCollections, ollamaModels, worldVars>>

\* No branch of handleCollectionsRoute takes the request: it returns null.
CollectionsNoMatch(method, path, authHeader) ==
  /\ ~(path = <<"collections">> /\ method \in {"GET", "POST"})
  /\ ~(CollectionMatch(path) /\ method \in {"GET", "DELETE"})
  /\ ~(SearchMatch(path) /\ method = "POST")
  /\ ~(DocumentsMatch(path) /\ method \in {"GET", "POST", "DELETE"})
  /\ Reaches(method, path, authHeader, "collections")
  /\ Respond(method, path, authHeader, Undef, NotFoundResponse, <<>>)
  /\ UNCHANGED <<storeVars, backendVars, worldVars>>

----------------------------------------------------------------------------
(* routes/llm: handleLLMRoute, for /embed, /generate and /chat. *)

GenerateCall(req) == [fn |-> "generate", request |-> req]

\* The pass-through of a backend stream by /generate, /chat and /models/pull.
PassThrough(handler) ==
  [handler |-> handler, status |-> 200, kind |-> "stream", success |-> TRUE,
   data |-> Undef, error |-> <<>>, cors |-> TRUE, appended |-> <<>>]

\* The auto-pull block of handleLLMRoute: a failed pull is thrown to the
\* handler's catch, which answers 500 with String(e).
PullOrThrow(model, env) ==
  IF modelExists(model, env)
  THEN Going(<<ShowCall(model)>>, ollamaModels)
  ELSE IF env.pullOk
       THEN Going(<<ShowCall(model), PullCall(model)>>, ollamaModels \cup {model})
       ELSE Done(ErrorResponse("llm", 500, PullError(model, env)),
                 <<ShowCall(model), PullCall(model)>>, ollamaModels)

\* POST /embed.
embedOutcome(body, env) ==
  IF body = Undef
  THEN Done(ErrorResponse("llm", 500, <<"SyntaxError">>), <<>>, ollamaModels)
  ELSE IF ~TruthyStr(body[1].model) \/ ~TruthyStr(body[1].input)
  THEN Done(ErrorResponse("llm", 400, <<"model and input required">>), <<>>,
            ollamaModels)
  ELSE LET pulled == PullOrThrow(body[1].model[1], env)
           embedded == Append(pulled.calls, EmbedCall(body[1].model[1], body[1].input))
       IN IF pulled.resp # Undef THEN pulled
          ELSE IF ~env.embedOk
          THEN Done(ErrorResponse("llm", 500, <<"Error: Ollama error">>), embedded,
                    pulled.models)
          ELSE Done(Json("llm", 200, [embeddings |-> <<ModelDim(body[1].model[1])>>]),
                    embedded, pulled.models)

\* POST /generate.
generateOutcome(body, env) ==
  IF body = Undef
  THEN Done(ErrorResponse("llm", 500, <<"SyntaxError">>), <<>>, ollamaModels)
  ELSE IF ~TruthyStr(body[1].model) \/ ~TruthyStr(body[1].prompt)
  THEN Done(ErrorResponse("llm", 400, <<"model and prompt required">>), <<>>,
            ollamaModels)
  ELSE LET pulled == PullOrThrow(body[1].model[1], env)
           generated == Append(pulled.calls,
                               GenerateCall([model |-> body[1].model[1],
                                             prompt |-> body[1].prompt[1],
                                             stream |-> Streaming(body[1])]))
       IN IF pulled.resp # Undef THEN pulled
          ELSE IF ~env.chatOk
          THEN Done(ErrorResponse("llm", 500, <<"Error: Ollama generate error">>),
                    generated, pulled.models)
          ELSE IF Streaming(body[1])
          THEN Done(PassThrough("llm"), generated, pulled.models)
          ELSE Done(Json("llm", 200, [response |-> "answer", done |-> TRUE]),
                    generated, pulled.models)

\* POST /chat.  !body.messages: an empty list is truthy.
chatOutcome(body, env) ==
  IF body = Undef
  THEN Done(ErrorResponse("llm", 500, <<"SyntaxError">>), <<>>, ollamaModels)
  ELSE IF ~TruthyStr(body[1].model) \/ body[1].messages = Undef
  THEN Done(ErrorResponse("llm", 400, <<"model and messages required">>), <<>>,
            ollamaModels)
  ELSE LET pulled == PullOrThrow(body[1].model[1], env)
           chatted == Append(pulled.calls,
                             ChatCall([model |-> body[1].model[1],
                                       messages |-> body[1].messages[1],
                                       stream |-> Streaming(body[1])]))
       IN IF pulled.resp # Undef THEN pulled
          ELSE IF ~env.chatOk
          THEN Done(ErrorResponse("llm", 500, <<"Error: Ollama chat error">>),
                    chatted, pulled.models)
          ELSE IF Streaming(body[1])
          THEN Done(PassThrough("llm"), chatted, pulled.models)
          ELSE Done(Json("llm", 200, ChatData), chatted, pulled.models)

handleLLMRoute(method, path, body, env) ==
  IF method # "POST"
  THEN Done(ErrorResponse("llm", 405, <<"Method not allowed">>), <<>>, ollamaModels)
  ELSE IF path = <<"embed">> THEN embedOutcome(body, env)
  ELSE IF path = <<"generate">> THEN generateOutcome(body, env)
  ELSE chatOutcome(body, env)

LLM(method, path, authHeader, body, env) ==
  /\ Reaches(method, path, authHeader, "llm")
  /\ LET out == handleLLMRoute(method, path, body, env)
     IN /\ Respond(method, path, authHeader, body, out.resp[1], out.calls)
        /\ ollamaModels' = out.models
  /\ UNCHANGED <<storeVars, qdrantCollections, qdrantPoints, worldVars>>

----------------------------------------------------------------------------
(* routes/models: handleModelsRoute. *)

ListModelsCall == [fn |-> "listModels"]
PullStreamCall(name) == [fn |-> "pullModel", name |-> name]
CopyCall(source, destination) ==
  [fn |-> "copyModel", source |-> source, destination |-> destination]
DeleteModelCall(name) == [fn |-> "deleteModel", name |-> name]

\* /^\/models\/(.+)$/
ModelMatch(path) == Len(path) >= 2 /\ path[1] = "models"

\* GET /models.
ListModels(method, path, authHeader, env) ==
  /\ path = <<"models">> /\ method = "GET"
  /\ Reaches(method, path, authHeader, "models")
  /\ Respond(method, path, authHeader, Undef,
       IF env.modelsOk THEN Json("models", 200, ollamaModels)
       ELSE ErrorResponse("models", 500, <<"Error: Ollama error">>),
       <<ListModelsCall>>)
  /\ UNCHANGED <<storeVars, backendVars, worldVars>>

\* POST /models/pull: the progress stream of the backend is passed through;
\* the backend downloads the model while the stream is read.
PullModel(method, path, authHeader, body, env) ==
  /\ path = <<"models", "pull">> /\ method = "POST"
  /\ Reaches(method, path, authHeader, "models")
  /\ IF body = Undef
     THEN Respond(method, path, authHeader, body,
            ErrorResponse("models", 500, <<"SyntaxError">>), <<>>)
     ELSE IF ~TruthyStr(body[1].name)
     THEN Respond(method, path, authHeader, body,
            ErrorResponse("models", 400, <<"name required">>), <<>>)
     ELSE IF ~env.pullOk
     THEN Respond(method, path, authHeader, body,
            ErrorResponse("models", 500, <<"Error: Failed to pull model: ", "Not Found">>),
            <<PullStreamCall(body[1].name[1])>>)
     ELSE Respond(method, path, authHeader, body, PassThrough("models"),
            <<PullStreamCall(body[1].name[1])>>)
  /\ UNCHANGED <<storeVars, backendVars, worldVars>>

\* POST /models/copy.
CopyModel(method, path, authHeader, body, env) ==
  /\ path = <<"models", "copy">> /\ method = "POST"
  /\ Reaches(method, path, authHeader, "models")
  /\ IF body = Undef
     THEN /\ Respond(method, path, authHeader, body,
               ErrorResponse("models", 500, <<"SyntaxError">>), <<>>)
          /\ UNCHANGED ollamaModels
     ELSE IF ~TruthyStr(body[1].source) \/ ~TruthyStr(body[1].destination)
     THEN /\ Respond(method, path, authHeader, body,
               ErrorResponse("models", 400, <<"source and destination required">>),
               <<>>)
          /\ UNCHANGED ollamaModels
     ELSE IF ~env.modelsOk \/ body[1].source[1] \notin ollamaModels
     THEN /\ Respond(method, path, authHeader, body,
               ErrorResponse("models", 500, <<"Error: Ollama error">>),
               <<CopyCall(body[1].source[1], body[1].destination[1])>>)
          /\ UNCHANGED ollamaModels
     ELSE /\ Respond(method, path, authHeader, body,
               [handler |-> "models", status |-> 200, kind |-> "json",
                success |-> TRUE, data |-> Undef, error |-> <<>>, cors |-> TRUE],
               <<CopyCall(body[1].source[1], body[1].destination[1])>>)
          /\ ollamaModels' = ollamaModels \cup {body[1].destination[1]}
  /\ UNCHANGED <<storeVars, qdrantCollections, qdrantPoints, worldVars>>

\* GET /models/:name: showModel throws for a model the backend does not hold.
GetModel(method, path, authHeader, env) ==
  /\ ModelMatch(path) /\ method = "GET"
  /\ Reaches(method, path, authHeader, "models")
  /\ Respond(method, path, authHeader, Undef,
       IF modelExists(path[2], env)
       THEN Json("models", 200, [name |-> path[2]])
       ELSE ErrorResponse("models", 500, <<"Error: Ollama error">>),
       <<ShowCall(path[2])>>)
  /\ UNCHANGED <<storeVars, backendVars, worldVars>>

\* DELETE /models/:name.
DeleteModel(method, path, authHeader, env) ==
  /\ ModelMatch(path) /\ method = "DELETE"
  /\ Reaches(method, path, authHeader, "models")
  /\ IF ~env.modelsOk \/ path[2] \notin ollamaModels
     THEN /\ Respond(method, path, authHeader, Undef,
               ErrorResponse("models", 500, <<"Error: Ollama error">>),
               <<DeleteModelCall(path[2])>>)
          /\ UNCHANGED ollamaModels
     ELSE /\ Respond(method, path, authHeader, Undef,
               [handler |-> "models", status |-> 200, kind |-> "json",
                success |-> TRUE, data |-> Undef, error |-> <<>>, cors |-> TRUE],
               <<DeleteModelCall(path[2])>>)
          /\ ollamaModels' = ollamaModels \ {path[2]}
  /\ UNCHANGED <<storeVars, qdrantCollections, qdrantPoints, worldVars>>

\* No branch of handleModelsRoute takes the request: it returns null.
ModelsNoMatch(method, path, authHeader) ==
  /\ ~(path = <<"models">> /\ method = "GET")
  /\ ~(path \in {<<"models", "pull">>, <<"models", "copy">>} /\ method = "POST")
  /\ ~(ModelMatch(path) /\ method \in {"GET", "DELETE"})
  /\ Reaches(method, path, authHeader, "models")
  /\ Respond(method, path, authHeader, Undef, NotFoundResponse, <<>>)
  /\ UNCHANGED <<storeVars, backendVars, worldVars>>

----------------------------------------------------------------------------
(* The requests and backend outcomes the model draws from. *)

Methods == {"GET", "POST", "DELETE", "OPTIONS"}

Paths ==
  {Root, HealthPath, <<"api-tokens">>, <<"collections">>, <<"collections", "docs">>,
   <<"query">>, <<"nowhere">>}
  \cup { <<"api-tokens", randomUUID(n)>> : n \in 1..MaxIssued }

\* Bearer values a client may present: every token that can be issued, the
\* stored hash of the first one, and the first one with a character changed.
BearerValues ==
  { generateToken(n) : n \in 1..MaxIssued }
  \cup {hashToken(generateToken(1)), "tok1x"}

AuthHeaders ==
  {Undef, Some([head |-> "Basic d", tail |-> "XNlcg=="])}
  \cup { Some([head |-> "Bearer ", tail |-> v]) : v \in BearerValues }

TokenBodies ==
  {Undef} \cup { Some([name |-> n]) : n \in {Undef, Some(" "), Some(" ci ")} }

EnvOk(h) ==
  [showOk |-> TRUE, pullOk |-> TRUE, embedOk |-> TRUE, hits |-> h, chatOk |-> TRUE,
   probeOk |-> TRUE, createOk |-> TRUE, deleteOk |-> TRUE, pullRejects |-> FALSE,
   modelsOk |-> TRUE, pointsOk |-> TRUE]

\* A handler returns at the first call that fails, the model probe apart: so
\* one failing call per request, with or without a failing probe, is every
\* course a request can take.
OneFault ==
  {EnvOk(h) : h \in -1..MaxResults}
  \cup {[EnvOk(h) EXCEPT !.chatOk = FALSE] : h \in 0..MaxResults}
  \cup {[EnvOk(0) EXCEPT !.pullOk = FALSE], [EnvOk(0) EXCEPT !.embedOk = FALSE],
        [EnvOk(0) EXCEPT !.probeOk = FALSE], [EnvOk(0) EXCEPT !.createOk = FALSE],
        [EnvOk(0) EXCEPT !.deleteOk = FALSE],
        [EnvOk(0) EXCEPT !.pullOk = FALSE, !.pullRejects = TRUE],
        [EnvOk(0) EXCEPT !.modelsOk = FALSE], [EnvOk(0) EXCEPT !.pointsOk = FALSE]}

Envs == OneFault \cup { [e EXCEPT !.showOk = FALSE] : e \in OneFault }

UserMessage(content) == [role |-> "user", content |-> content]
SystemMessage == [role |-> "system", content |-> "be brief"]

MessageLists ==
  {Undef, Some(<<>>), Some(<<SystemMessage>>), Some(<<UserMessage("u")>>),
   Some(<<SystemMessage, UserMessage("")>>)}

QueryBodies ==
  {Undef} \cup
  { Some(b) : b \in
      [model : {Undef, Some("llama")}, query : {Undef, Some("q")},
       prompt : {Undef, Some(""), Some("p")}, messages : MessageLists,
       collection : {Undef, Some("docs"), Some("ghost")},
       top_k : {Undef, Some(0), Some(3)}, limit : {Undef, Some(0), Some(7)},
       system : {Undef}, stream : {Undef, Some(FALSE)}] }

\* The few query bodies the full server model is run with.
PlainBody ==
  [model |-> Some("llama"), query |-> Undef, prompt |-> Some("p"), messages |-> Undef,
   collection |-> Undef, top_k |-> Undef, limit |-> Undef, system |-> Undef,
   stream |-> Undef]
FewQueryBodies == {Some(PlainBody), Some([PlainBody EXCEPT !.collection = Some("docs")])}

SearchBodies ==
  {Undef} \cup
  { Some(b) : b \in
      [query : {Undef, Some(""), Some("q")},
       top_k : {Undef, Some(0), Some(3)}, limit : {Undef, Some(0), Some(7)}] }

CollectionBodies ==
  {Undef} \cup
  { Some(b) : b \in
      [name : {Undef, Some("docs")}, embeddingModel : {Undef, Some("nomic")},
       dimension : {Undef, Some(5)}] }
FewCollectionBodies ==
  {Some([name |-> Some("docs"), embeddingModel |-> Some("nomic"), dimension |-> Undef])}

----------------------------------------------------------------------------
(* The server. *)

\* A fresh deployment: no config.json, an empty vector store; `models` are
\* the models the inference server already holds.
InitWith(models) ==
  /\ configFile = Undef
  /\ defaultConfig = InitialConfig
  /\ issued = 0
  /\ handedOut = {}
  /\ qdrantCollections = {}
  /\ qdrantPoints = {}
  /\ ollamaModels = models
  /\ request = [method |-> "NONE", path |-> Root, authHeader |-> Undef, body |-> Undef]
  /\ response = [handler |-> "boot", status |-> 0, kind |-> "empty", success |-> TRUE,
                 data |-> Undef, error |-> <<>>, cors |-> FALSE]
  /\ calls = <<>>
  /\ stream = NoStream
  /\ revoked = {}
  /\ disk = "ok"
  /\ inflight = NoneInFlight

Init == InitWith({"llama", "nomic"})

\* Every request to the whole server, under every Authorization header, with
\* the backends answering.
Next ==
  \E method \in Methods, path \in Paths, authHeader \in AuthHeaders :
    \/ Preflight(method, path, authHeader)
    \/ Unauthorized(method, path, authHeader)
    \/ HealthCheck(method, path, authHeader)
    \/ ListTokens(method, path, authHeader)
    \/ \E body \in TokenBodies : CreateToken(method, path, authHeader, body)
    \/ GetToken(method, path, authHeader)
    \/ DeleteToken(method, path, authHeader)
    \/ ApiTokensNoMatch(method, path, authHeader)
    \/ ListCollections(method, path, authHeader)
    \/ \E body \in FewCollectionBodies :
         CreateCollection(method, path, authHeader, body, EnvOk(1))
    \/ GetCollection(method, path, authHeader, EnvOk(1))
    \/ DeleteCollection(method, path, authHeader, EnvOk(1))
    \/ CollectionsNoMatch(method, path, authHeader)
    \/ \E body \in FewQueryBodies : Query(method, path, authHeader, body, EnvOk(0))
    \/ NotFound(method, path, authHeader)

Spec == Init /\ [][Next]_vars

----------------------------------------------------------------------------
(* One request to /query or to a collection's search route.  Both handlers   *)
(* are functions of the request, the registry and the course the backend     *)
(* calls take, so this specification starts from every such request waiting  *)
(* at an open server (no token was created) and handles it once.             *)

Pending ==
  [handler |-> "pending", status |-> 0, kind |-> "empty", success |-> TRUE,
   data |-> Undef, error |-> <<>>, cors |-> FALSE]

\* The registry after POST /collections {name: "docs", embeddingModel: "nomic"}
\* on a fresh deployment.
DocsConfig ==
  [InitialConfig EXCEPT !.collections =
     SetKey(@, "docs",
            NewCollectionConfig([name |-> Some("docs"), embeddingModel |-> Some("nomic"),
                                 dimension |-> Undef]))]

QueryRequests ==
  { [method |-> m, path |-> <<"query">>, authHeader |-> Undef, body |-> b] :
      m \in {"GET", "POST"}, b \in QueryBodies }

SearchRequests ==
  { [method |-> "POST", path |-> <<"collections", c, "search">>, authHeader |-> Undef,
     body |-> b] : c \in {"docs", "ghost"}, b \in SearchBodies }

InitQuery ==
  /\ \E registered \in BOOLEAN :
       /\ configFile = IF registered THEN Some(DocsConfig) ELSE Undef
       /\ defaultConfig = IF registered THEN DocsConfig ELSE InitialConfig
       /\ qdrantCollections = IF registered THEN {"docs"} ELSE {}
       /\ qdrantPoints = IF registered
                         THEN { <<"docs", SearchResult(i).id>> : i \in 1..MaxResults }
                         ELSE {}
       /\ ollamaModels \in IF registered THEN {{"nomic"}, {"nomic", "llama"}}
                           ELSE {{}, {"llama"}}
  /\ issued = 0
  /\ handedOut = {}
  /\ request \in QueryRequests \cup SearchRequests
  /\ response = Pending
  /\ calls = <<>>
  /\ stream = NoStream
  /\ revoked = {}
  /\ disk = "ok"
  /\ inflight = NoneInFlight

QueryOnce ==
  /\ response = Pending
  /\ \E env \in Envs :
       Query(request.method, request.path, request.authHeader, request.body, env)

SearchOnce ==
  /\ response = Pending
  /\ \E env \in Envs :
       Search(request.method, request.path, request.authHeader, request.body, env)

NextQuery == QueryOnce \/ SearchOnce

SpecQuery == InitQuery /\ [][NextQuery]_vars

----------------------------------------------------------------------------
(* One request to any route.  Every handler is a function of the request,    *)
(* the stores and the course its backend calls take, so this specification   *)
(* starts from every request of OnceRequests waiting at a server that is     *)
(* open or protected by one token, with or without the collection "docs",    *)
(* and handles it once.                                                      *)

OnceMethods == Methods \cup {"PUT"}

OncePaths ==
  {Root, HealthPath, <<"nowhere">>,
   <<"api-tokens">>, <<"api-tokens", randomUUID(1)>>, <<"api-tokens", randomUUID(2)>>,
   <<"collections">>, <<"collections", "docs">>, <<"collections", "ghost">>,
   <<"collections", "docs", "documents">>, <<"collections", "ghost", "documents">>,
   <<"collections", "docs", "search">>, <<"collections", "ghost", "search">>,
   <<"models">>, <<"models", "pull">>, <<"models", "copy">>, <<"models", "llama">>,
   <<"models", "ghost">>,
   <<"query">>, <<"embed">>, <<"generate">>, <<"chat">>}

OnceHeaders ==
  {Undef, Some([head |-> "Bearer ", tail |-> generateToken(1)]),
   Some([head |-> "Bearer ", tail |-> "tok1x"])}

LLMBodies ==
  {Undef} \cup
  { Some(b) : b \in
      [model : {Undef, Some("llama")}, input : {Undef, Some("text")},
       prompt : {Undef, Some("p")}, messages : {Undef, Some(<<UserMessage("u")>>)},
       stream : {Undef, Some(FALSE)}] }

NameBodies == {Undef} \cup { Some([name |-> n]) : n \in {Undef, Some("llama")} }

CopyBodies ==
  {Undef} \cup
  { Some([source |-> a, destination |-> b]) :
      a \in {Undef, Some("llama"), Some("ghost")}, b \in {Undef, Some("copy")} }

\* Documents as callers send them: with an id of their own (0 is one), or
\* without.
Document(id) == [id |-> id, content |-> "c"]

InsertBodies ==
  {Undef} \cup
  { Some([documents |-> Undef, content |-> c, id |-> x]) :
      c \in {Undef, Some("c")}, x \in {Undef, Some(0), Some(1), Some(9)} }
  \cup { Some([documents |-> Some(d), content |-> Undef, id |-> Undef]) :
           d \in {<<>>, <<Document(Some(8)), Document(Undef)>>} }

DeleteBodies ==
  {Undef} \cup
  { Some([ids |-> x]) : x \in {Undef, Some(<<>>), Some(<<0>>), Some(<<1>>), Some(<<9>>)} }

MaxGenerated == 1
GeneratedIds == { generateId(k) : k \in 1..MaxGenerated }

\* The bodies sent to a path; Undef stands for a body that is no JSON.
BodiesOf(method, path) ==
  IF method = "POST" /\ path = <<"api-tokens">> THEN TokenBodies
  ELSE IF method = "POST" /\ path = <<"collections">> THEN CollectionBodies
  ELSE IF method = "POST" /\ DocumentsMatch(path) THEN InsertBodies
  ELSE IF method = "DELETE" /\ DocumentsMatch(path) THEN DeleteBodies
  ELSE IF method = "POST" /\ SearchMatch(path) THEN {Undef, Some([query |-> Some("q"), top_k |-> Undef, limit |-> Undef])}
  ELSE IF method = "POST" /\ path = <<"models", "pull">> THEN NameBodies
  ELSE IF method = "POST" /\ path = <<"models", "copy">> THEN CopyBodies
  ELSE IF method = "POST" /\ path = <<"query">>
  THEN FewQueryBodies \cup { Some([b[1] EXCEPT !.stream = Some(FALSE)]) : b \in FewQueryBodies }
  ELSE IF method = "POST" /\ path \in {<<"embed">>, <<"generate">>, <<"chat">>}
  THEN LLMBodies
  ELSE {Undef}

OnceRequests ==
  UNION { { [method |-> m, path |-> p, authHeader |-> h, body |-> b] :
              h \in OnceHeaders, b \in BodiesOf(m, p) } :
          m \in OnceMethods, p \in OncePaths }

\* config.json after POST /api-tokens {name: "ci"} and, when registered, POST
\* /collections for "docs".
OnceConfig(protected, registered) ==
  [collections |-> IF registered THEN DocsConfig.collections ELSE EmptyObject,
   apiTokens |-> IF protected THEN <<NewToken("ci", 1)>> ELSE <<>>]

InitOnce ==
  /\ \E protected \in BOOLEAN, registered \in BOOLEAN :
       /\ configFile = IF protected \/ registered
                       THEN Some(OnceConfig(protected, registered)) ELSE Undef
       /\ defaultConfig = IF protected \/ registered
                          THEN OnceConfig(protected, registered) ELSE InitialConfig
       /\ issued = IF protected THEN 1 ELSE 0
       /\ handedOut = IF protected
                      THEN {[id |-> randomUUID(1), token |-> generateToken(1)]} ELSE {}
       /\ qdrantCollections = IF registered THEN {"docs"} ELSE {}
       /\ qdrantPoints = IF registered
                         THEN { <<"docs", SearchResult(i).id>> : i \in 1..MaxResults }
                         ELSE {}
  /\ ollamaModels \in {{}, {"llama", "nomic"}}
  /\ request \in OnceRequests
  /\ response = Pending
  /\ calls = <<>>
  /\ stream = NoStream
  /\ revoked = {}
  /\ disk = "ok"
  /\ inflight = NoneInFlight

Arrived == response = Pending

NextOnce ==
  \E env \in Envs :
    \/ Arrived /\ Preflight(request.method, request.path, request.authHeader)
    \/ Arrived /\ Unauthorized(request.method, request.path, request.authHeader)
    \/ Arrived /\ HealthCheck(request.method, request.path, request.authHeader)
    \/ Arrived /\ ListTokens(request.method, request.path, request.authHeader)
    \/ Arrived /\ CreateToken(request.method, request.path, request.authHeader,
                              request.body)
    \/ Arrived /\ GetToken(request.method, request.path, request.authHeader)
    \/ Arrived /\ DeleteToken(request.method, request.path, request.authHeader)
    \/ Arrived /\ ApiTokensNoMatch(request.method, request.path, request.authHeader)
    \/ Arrived /\ ListCollections(request.method, request.path, request.authHeader)
    \/ Arrived /\ CreateCollection(request.method, request.path, request.authHeader,
                                   request.body, env)
    \/ Arrived /\ GetCollection(request.method, request.path, request.authHeader, env)
    \/ Arrived /\ DeleteCollection(request.method, request.path, request.authHeader,
                                   env)
    \/ Arrived /\ \E generated \in GeneratedIds :
                    InsertDocuments(request.method, request.path, request.authHeader,
                                    request.body, env, generated)
    \/ Arrived /\ ListDocuments(request.method, request.path, request.authHeader, env)
    \/ Arrived /\ DeleteDocuments(request.method, request.path, request.authHeader,
                                  request.body, env)
    \/ Arrived /\ Search(request.method, request.path, request.authHeader,
                         request.body, env)
    \/ Arrived /\ CollectionsNoMatch(request.method, request.path, request.authHeader)
    \/ Arrived /\ ListModels(request.method, request.path, request.authHeader, env)
    \/ Arrived /\ PullModel(request.method, request.path, request.authHeader,
                            request.body, env)
    \/ Arrived /\ CopyModel(request.method, request.path, request.authHeader,
                            request.body, env)
    \/ Arrived /\ GetModel(request.method, request.path, request.authHeader, env)
    \/ Arrived /\ DeleteModel(request.method, request.path, request.authHeader, env)
    \/ Arrived /\ ModelsNoMatch(request.method, request.path, request.authHeader)
    \/ Arrived /\ Query(request.method, request.path, request.authHeader,
                        request.body, env)
    \/ Arrived /\ LLM(request.method, request.path, request.authHeader,
                      request.body, env)
    \/ Arrived /\ NotFound(request.method, request.path, request.authHeader)

SpecOnce == InitOnce /\ [][NextOnce]_vars

----------------------------------------------------------------------------
(* routes/query: the body of a streamed answer.  With sources, the body is    *)
(* transformedStream, whose start() reads the chat backend's body to its end  *)
(* and hands every chunk on; without, it is the chat backend's body itself.   *)

\* A chunk of the chat backend's body, and the encoded sources line.
Chunk(c) == [kind |-> "chunk", value |-> c]
SourcesChunk(resp) == [kind |-> "sources", value |-> resp.appended[1].sources]

\* controller.error closing the stream as complete instead.
controllerErrorCloses(strm) == [strm EXCEPT !.state = "closed"]

\* controller.enqueue, controller.close and controller.error.
controllerEnqueue(strm, chunk) == [strm EXCEPT !.enqueued = Append(@, chunk)]
controllerClose(strm) == [strm EXCEPT !.state = "closed"]
controllerError(strm) == [strm EXCEPT !.state = "errored"]

\* The transform is installed: sources.length > 0.
Transformed(resp) == resp.handler = "query" /\ resp.appended # <<>>

\* reader.read() resolves with {done: false, value}: the chunk is enqueued.
ReadChunk(c) ==
  /\ stream.state = "open" /\ stream.source = "reading"
  /\ Len(stream.upstream) < MaxChunks
  /\ stream' = controllerEnqueue([stream EXCEPT !.upstream = Append(@, Chunk(c))],
                                 Chunk(c))
  /\ UNCHANGED <<storeVars, backendVars, request, response, calls, worldVars>>

\* reader.read() resolves with {done: true}: the sources line is enqueued,
\* the stream is closed and the loop is left.
ReadDone ==
  /\ stream.state = "open" /\ stream.source = "reading"
  /\ LET ended == [stream EXCEPT !.source = "ended"]
     IN stream' = IF Transformed(response)
                  THEN controllerClose(controllerEnqueue(ended, SourcesChunk(response)))
                  ELSE controllerClose(ended)
  /\ UNCHANGED <<storeVars, backendVars, request, response, calls, worldVars>>

\* reader.read() rejects: the catch errors the stream and start() returns.
ReadError ==
  /\ stream.state = "open" /\ stream.source = "reading"
  /\ stream' = controllerError([stream EXCEPT !.source = "failed"])
  /\ UNCHANGED <<storeVars, backendVars, request, response, calls, worldVars>>

\* What the chat backend may send in one chunk.
Chunks == {"a", "b"}

\* A streamed POST /query, with and without retrieval, at an open server
\* where "docs" is registered: the request is handled, then the body of its
\* answer is read to its end or to a failure.
StreamRequests ==
  { [method |-> "POST", path |-> <<"query">>, authHeader |-> Undef, body |-> b] :
      b \in FewQueryBodies }

InitStream ==
  /\ configFile = Some(DocsConfig)
  /\ defaultConfig = DocsConfig
  /\ qdrantCollections = {"docs"}
  /\ qdrantPoints = { <<"docs", SearchResult(i).id>> : i \in 1..MaxResults }
  /\ ollamaModels = {"nomic", "llama"}
  /\ issued = 0
  /\ handedOut = {}
  /\ request \in StreamRequests
  /\ response = Pending
  /\ calls = <<>>
  /\ stream = NoStream
  /\ revoked = {}
  /\ disk = "ok"
  /\ inflight = NoneInFlight

QueryStream ==
  /\ Arrived
  /\ \E hits \in 0..MaxResults :
       Query(request.method, request.path, request.authHeader, request.body,
             EnvOk(hits))

NextStream ==
  \/ QueryStream
  \/ \E c \in Chunks : ReadChunk(c)
  \/ ReadDone
  \/ ReadError

SpecStream == InitStream /\ [][NextStream]_vars

----------------------------------------------------------------------------
(* The stores under file faults.  The requests that write config.json are    *)
(* handled one after the other while reads or writes of the file start and   *)
(* stop failing.                                                             *)

DiskStates == {"ok", "readFails", "writeFails"}

\* Reading (Bun.file(...).json()) or writing (Bun.write) config.json starts or
\* stops throwing.
DiskChange(d) ==
  /\ d # disk
  /\ disk' = d
  /\ UNCHANGED <<storeVars, backendVars, request, response, calls, stream, inflight>>

StoreMethods == {"POST", "DELETE"}
StorePaths ==
  {<<"api-tokens">>, <<"collections">>, <<"collections", "docs">>}
  \cup { <<"api-tokens", randomUUID(n)>> : n \in 1..MaxIssued }
StoreHeaders == {Undef, Some([head |-> "Bearer ", tail |-> generateToken(1)])}
StoreEnvs ==
  {EnvOk(0), [EnvOk(0) EXCEPT !.createOk = FALSE], [EnvOk(0) EXCEPT !.deleteOk = FALSE],
   [EnvOk(0) EXCEPT !.embedOk = FALSE],
   [EnvOk(0) EXCEPT !.showOk = FALSE, !.pullOk = FALSE]}

NextStore ==
  \/ \E d \in DiskStates : DiskChange(d)
  \/ \E method \in StoreMethods, path \in StorePaths, authHeader \in StoreHeaders :
       \/ CreateToken(method, path, authHeader, Some([name |-> Some(" ci ")]))
       \/ DeleteToken(method, path, authHeader)
       \/ \E body \in FewCollectionBodies, env \in StoreEnvs :
            CreateCollection(method, path, authHeader, body, env)
       \/ \E env \in StoreEnvs : DeleteCollection(method, path, authHeader, env)

SpecStore == Init /\ [][NextStore]_vars

----------------------------------------------------------------------------
(* Concurrent writers.  Every function of lib/config and lib/tokens that     *)
(* writes awaits loadConfig, changes the object it got, and awaits           *)
(* saveConfig, which serialises the object at once and writes the text       *)
(* later; createApiToken also awaits hashToken before its change.  Other     *)
(* handlers run at each await.  A handler that writes is therefore several   *)
(* steps here: Load runs it up to the return of loadConfig and, except in    *)
(* createApiToken, on to the serialisation; Push is createApiToken going on  *)
(* after hashToken; Write is the text reaching config.json and the answer.   *)

\* The writing function a request ends in.
WriterOp(method, path) ==
  IF method = "POST" /\ path = <<"api-tokens">> THEN "createApiToken"
  ELSE IF method = "DELETE" /\ TokenMatch(path) THEN "deleteApiToken"
  ELSE IF method = "POST" /\ path = <<"collections">> THEN "setCollectionConfig"
  ELSE IF method = "DELETE" /\ CollectionMatch(path) THEN "removeCollectionConfig"
  ELSE "none"

\* The change the handler makes to the loaded object.
Changed(f, config) ==
  IF f.op = "createApiToken"
  THEN [config EXCEPT !.apiTokens = Append(@, NewToken(Trim(f.body[1].name[1]), f.n))]
  ELSE IF f.op = "deleteApiToken"
  THEN [config EXCEPT !.apiTokens = SelectSeq(@, LAMBDA t : t.id # f.path[2])]
  ELSE IF f.op = "setCollectionConfig"
  THEN [config EXCEPT !.collections =
          SetKey(@, f.body[1].name[1], NewCollectionConfig(f.body[1]))]
  ELSE [config EXCEPT !.collections = DeleteKey(@, f.path[2])]

\* The handler changes the object it loaded and serialises it: f.config is
\* the object before the change, f.content what saveConfig will write.
Serialised(f, config) ==
  [f EXCEPT !.phase = "saving", !.config = config, !.content = Changed(f, config)]

\* deleteApiToken returns false without saving when no token has the id.
Saves(f) ==
  f.op = "deleteApiToken" => Len(f.content.apiTokens) # Len(f.config.apiTokens)

\* A write that applies the handler's change to the file as it is now.
LandedMerged(f) == Changed(f, loadConfig)

\* What Bun.write puts in config.json: the text serialised before the await.
Landed(f) == f.content

\* The handler's answer after its write.
Answer(f) ==
  IF f.op = "createApiToken"
  THEN LET result == CreateResult(Trim(f.body[1].name[1]), f.n)
       IN Saved("apiTokens",
            Json("apiTokens", 201,
                 [id |-> result.info.id, name |-> result.info.name,
                  createdAt |-> result.info.createdAt, token |-> result.token]))
  ELSE IF f.op = "deleteApiToken"
  THEN IF Saves(f)
       THEN Saved("apiTokens",
              [handler |-> "apiTokens", status |-> 200, kind |-> "json",
               success |-> TRUE, data |-> Undef, error |-> <<>>, cors |-> TRUE])
       ELSE ErrorResponse("apiTokens", 404, <<"Token not found">>)
  ELSE IF f.op = "setCollectionConfig"
  THEN Saved("collections", Json("collections", 201, NewCollectionConfig(f.body[1])))
  ELSE Saved("collections",
         [handler |-> "collections", status |-> 200, kind |-> "json",
          success |-> TRUE, data |-> Undef, error |-> <<>>, cors |-> TRUE])

\* Handler p runs from the arrival of the request to the return of loadConfig
\* in its writing function: the gate, the validation of the body and, for a
\* collection, the backend calls that come before the registry write.  All
\* but createApiToken go straight on to change and serialise the object.
Load(p, method, path, authHeader, body) ==
  LET op == WriterOp(method, path)
      res == createCollectionOutcome(body, EnvOk(0))
      held(made, n) ==
        [method |-> method, path |-> path, authHeader |-> authHeader, body |-> body,
         op |-> op, phase |-> "hashing", shared |-> LoadsDefault,
         config |-> loadConfig, content |-> loadConfig, n |-> n, made |-> made]
      f == held(IF op = "setCollectionConfig" THEN res.out.calls
                ELSE IF op = "removeCollectionConfig" THEN <<DeleteCall(path[2])>>
                ELSE <<>>,
                IF op = "createApiToken" THEN issued + 1 ELSE 0)
      g == IF op = "createApiToken" THEN f ELSE Serialised(f, loadConfig)
  IN /\ inflight[p] = Undef
     /\ op # "none"
     /\ AuthGate(authHeader, path) = Undef
     /\ op = "createApiToken" =>
          /\ issued < MaxIssued
          /\ body # Undef /\ TruthyStr(body[1].name) /\ Trim(body[1].name[1]) # ""
     /\ op = "setCollectionConfig" => res.created
     /\ issued' = IF op = "createApiToken" THEN issued + 1 ELSE issued
     /\ qdrantCollections' =
          IF op = "setCollectionConfig" THEN qdrantCollections \cup {body[1].name[1]}
          ELSE IF op = "removeCollectionConfig" THEN qdrantCollections \ {path[2]}
          ELSE qdrantCollections
     /\ qdrantPoints' =
          IF op = "removeCollectionConfig"
          THEN { pt \in qdrantPoints : pt[1] # path[2] } ELSE qdrantPoints
     /\ ollamaModels' = IF op = "setCollectionConfig" THEN res.out.models ELSE ollamaModels
     /\ defaultConfig' = IF g.shared /\ g.phase = "saving" THEN g.content ELSE defaultConfig
     /\ inflight' = [inflight EXCEPT ![p] = Some(g)]
     /\ UNCHANGED <<configFile, handedOut, revoked, disk,
                    request, response, calls, stream>>

\* createApiToken goes on after hashToken: it pushes the new token onto the
\* object it loaded, which is defaultConfig as it is now when there was no
\* file to read, and serialises it.
Push(p) ==
  /\ inflight[p] # Undef
  /\ inflight[p][1].phase = "hashing"
  /\ LET f == inflight[p][1]
         g == Serialised(f, IF f.shared THEN defaultConfig ELSE f.config)
     IN /\ defaultConfig' = IF g.shared THEN g.content ELSE defaultConfig
        /\ inflight' = [inflight EXCEPT ![p] = Some(g)]
  /\ UNCHANGED <<configFile, issued, handedOut, revoked, disk, backendVars,
                 request, response, calls, stream>>

\* The write of handler p reaches the file and the handler answers.
Write(p) ==
  /\ inflight[p] # Undef
  /\ inflight[p][1].phase = "saving"
  /\ LET f == inflight[p][1]
         ok == Saves(f) /\ ~WriteFails
     IN /\ configFile' = IF ok THEN Some(Landed(f)) ELSE configFile
        /\ Respond(f.method, f.path, f.authHeader, f.body, Answer(f), f.made)
        /\ handedOut' =
             IF f.op = "createApiToken" /\ ok
             THEN handedOut \cup {[id |-> randomUUID(f.n), token |-> generateToken(f.n)]}
             ELSE handedOut
        /\ revoked' = IF f.op = "deleteApiToken" /\ ok
                      THEN revoked \cup {f.path[2]} ELSE revoked
  /\ inflight' = [inflight EXCEPT ![p] = Undef]
  /\ UNCHANGED <<defaultConfig, issued, backendVars, disk>>

RaceRequests ==
  { [method |-> "POST", path |-> <<"api-tokens">>, body |-> Some([name |-> Some("ci")])],
    [method |-> "POST", path |-> <<"collections">>,
     body |-> Some([name |-> Some("docs"), embeddingModel |-> Some("nomic"),
                    dimension |-> Undef])],
    [method |-> "DELETE", path |-> <<"collections", "docs">>, body |-> Undef] }
  \cup { [method |-> "DELETE", path |-> <<"api-tokens", randomUUID(n)>>, body |-> Undef] :
           n \in 1..MaxIssued }

\* The ids a caller can name: those a creation has answered with.
KnownIds == { h.id : h \in handedOut }

NextRace ==
  \E p \in Procs :
    \/ \E r \in { q \in RaceRequests :
                    WriterOp(q.method, q.path) = "deleteApiToken" => q.path[2] \in KnownIds },
          authHeader \in StoreHeaders :
         Load(p, r.method, r.path, authHeader, r.body)
    \/ Push(p)
    \/ Write(p)

SpecRace == Init /\ [][NextRace]_vars

----------------------------------------------------------------------------
(* The claims about the auth gate and the credential store, under Spec. *)

StoredTokens == loadConfig.apiTokens
TokensStored == Len(StoredTokens) > 0

\* The header is present, starts with 'Bearer ' and the rest hashes to the
\* stored hash of some token.
BearerOfStoredToken(authHeader) ==
  /\ authHeader # Undef
  /\ authHeader[1].head = "Bearer "
  /\ \E i \in DOMAIN StoredTokens :
       StoredTokens[i].tokenHash = hashToken(authHeader[1].tail)

\* The state a request leaves untouched when no handler ran for it.
NothingRan ==
  /\ calls' = <<>>
  /\ UNCHANGED <<configFile, defaultConfig, issued, handedOut, revoked, disk, inflight, qdrantCollections, qdrantPoints,
                 ollamaModels>>

\* C1: while a token is stored, every request that is not a preflight and not
\* for /health (so "/" and every /api-tokens path too) is answered 401 by the
\* middleware, with no handler run, unless it carries the Bearer value of a
\* stored token.
C1_ProtectedMode ==
  [][ ( /\ TokensStored
        /\ request'.method # "OPTIONS"
        /\ request'.path # HealthPath
        /\ ~BearerOfStoredToken(request'.authHeader) )
      => ( /\ response'.status = 401
           /\ response'.handler = "auth"
           /\ NothingRan ) ]_vars

\* POST /api-tokens with the Bearer value of no stored token, a token stored:
\* answered 401, no further token created.
C1_Witness ==
  /\ TokensStored
  /\ request.method = "POST" /\ request.path = <<"api-tokens">>
  /\ request.authHeader = Some([head |-> "Bearer ", tail |-> "tok1x"])
  /\ response.status = 401

\* C2: while no token is stored, at the start and again after every token was
\* deleted, the middleware answers no request with 401, whatever its header.
C2_OpenMode ==
  [][ ~TokensStored => (response'.status # 401 /\ response'.handler # "auth") ]_vars

\* Tokens were created and all deleted again, and a request without a header
\* is served by a route handler.
C2_Witness ==
  /\ issued > 0 /\ ~TokensStored
  /\ request.authHeader = Undef /\ request.path = <<"api-tokens">>
  /\ request.method = "GET"
  /\ response.status = 200 /\ response.handler = "apiTokens"

\* C3 as claimed: while tokens exist GET /health is answered with the health
\* response whatever the Authorization header is.  (The response leaves the
\* token set as it was, so the state after the request decides.)
C3_HealthAlwaysReachable ==
  (TokensStored /\ request.method = "GET" /\ request.path = HealthPath)
    => (response.handler = "health" /\ response.status = 200)

\* C4 as claimed: while tokens exist GET / without an Authorization header is
\* answered with the health response.
C4_RootUnauthenticated ==
  (TokensStored /\ request.method = "GET" /\ request.path = Root
                /\ request.authHeader = Undef)
    => (response.handler = "health" /\ response.status = 200)

IssuedPlaintexts == { h.token : h \in handedOut }

\* An entry of a list or get response shows id, name and createdAt, and none
\* of them is an issued plaintext or its hash.
SafeInfo(info) ==
  /\ DOMAIN info = {"id", "name", "createdAt"}
  /\ \A f \in DOMAIN info, t \in IssuedPlaintexts :
       info[f] # t /\ info[f] # hashToken(t)

----------------------------------------------------------------------------
(* The claims about /query and the search route, under SpecQuery. *)

\* The pending request is a POST /query whose body parsed as a JSON object.
QueryPosted ==
  /\ request.path = <<"query">> /\ request.method = "POST"
  /\ request.body # Undef

Answered == response # Pending

Absent(field) == field = Undef \/ field[1] = ""

\* Neither query nor prompt carries text, and no user message does.
NoTextGiven(body) ==
  /\ Absent(body.query) /\ Absent(body.prompt)
  /\ body.messages # Undef =>
       \A i \in DOMAIN body.messages[1] :
         body.messages[1][i].role = "user" => body.messages[1][i].content = ""

CallsNamed(fns) == { i \in DOMAIN calls : calls[i].fn \in fns }
Generation == {"embed", "searchPoints", "chat"}

\* C6 as claimed: a POST /query with no resolvable query text is rejected
\* with 400 before any backend call.
C6_NoTextRejected ==
  (QueryPosted /\ Answered /\ NoTextGiven(request.body[1]))
    => (response.status = 400 /\ calls = <<>>)

\* C6, amended: a POST /query with no resolvable query text and no message
\* list, or an empty one, is rejected with 400 before any backend call: no
\* probe, pull, registry lookup, embedding, search or chat.
C6_NoTextNoMessagesRejected ==
  ( /\ QueryPosted /\ Answered /\ NoTextGiven(request.body[1])
    /\ (request.body[1].messages = Undef \/ request.body[1].messages[1] = <<>>) )
    => (response.status = 400 /\ ~response.success /\ calls = <<>>)

\* A model is named, there is no text but an empty message list: 400 with
\* the validation message and no call.
C6_Witness ==
  /\ QueryPosted /\ Answered
  /\ request.body[1].model = Some("llama")
  /\ NoTextGiven(request.body[1]) /\ request.body[1].messages = Some(<<>>)
  /\ response.status = 400 /\ calls = <<>>
  /\ response.error = <<"prompt, query, or messages required">>

\* The request went past validation: it was not turned down with no call made.
PassedValidation == ~(response'.status \in {400, 405, 500} /\ calls' = <<>>)

\* C7: when a POST /query that passes validation names a chat model that is
\* absent locally, exactly one pull is made, right after the probe and before
\* every registry lookup, embedding, search and chat call; if the model is
\* still absent afterwards (the pull failed) the answer is a 400 whose message
\* names the model and no embedding, search or chat call is made.
C7_ModelProvisioning ==
  [][ ( /\ QueryPosted /\ response = Pending /\ PassedValidation
        /\ request.body[1].model # Undef
        /\ request.body[1].model[1] \notin ollamaModels )
      => LET model == request.body[1].model[1]
             pulls == { i \in DOMAIN calls' : calls'[i].fn = "pullModelSync" }
         IN /\ pulls = {2}
            /\ calls'[2].name = model
            /\ calls'[1].fn = "showModel"
            /\ model \notin ollamaModels' =>
                 /\ response'.status = 400
                 /\ model \in Range(response'.error)
                 /\ \A i \in DOMAIN calls' : calls'[i].fn \notin Generation ]_vars

\* The model was absent, the pull failed: 400 after probe and pull only.
C7_Witness ==
  /\ QueryPosted /\ Answered
  /\ request.body[1].model = Some("llama") /\ "llama" \notin ollamaModels
  /\ request.body[1].collection = Some("docs")
  /\ calls = <<ShowCall("llama"), PullCall("llama")>>
  /\ response.status = 400

\* The request names a collection the registry has no config for.
NamesUnregistered(body) ==
  /\ body.collection # Undef /\ body.collection[1] # ""
  /\ body.collection[1] \notin DOMAIN loadConfig.collections

C9_NonRagPath ==
  (QueryPosted /\ Answered /\ request.body[1].collection = Undef)
    => /\ CallsNamed({"getCollectionConfig", "embed", "searchPoints"}) = {}
       /\ response.kind = "stream" => response.appended = <<>>
       /\ (response.kind = "json" /\ response.status = 200) =>
            "sources" \notin DOMAIN response.data[1]

\* Both ways of answering a query without collection happen, chat called.
C9_Witness ==
  /\ QueryPosted /\ Answered /\ request.body[1].collection = Undef
  /\ response.status = 200 /\ response.kind = "json"
  /\ request.body[1].messages = Some(<<UserMessage("u")>>)
  /\ CallsNamed({"chat"}) # {}

\* The request is for one of the two routes that search, with a parsed body.
SearchPosted ==
  /\ request.method = "POST" /\ request.body # Undef
  /\ request.path = <<"query">> \/ SearchMatch(request.path)

RouteDefault == IF request.path = <<"query">> THEN 5 ELSE 10

SearchLimits == { calls[i].limit : i \in CallsNamed({"searchPoints"}) }

\* C10 as claimed: the search is issued with top_k whenever top_k is supplied,
\* with limit when only limit is, with the default when neither is.
C10_TopKPrecedence ==
  (SearchPosted /\ Answered)
    => LET body == request.body[1]
       IN SearchLimits \subseteq
            { IF body.top_k # Undef THEN body.top_k[1]
              ELSE IF body.limit # Undef THEN body.limit[1]
              ELSE RouteDefault }

Given(field) == field # Undef /\ field[1] # 0

\* C10, amended: a top_k or limit of 0 counts as not supplied; the search is
\* issued with top_k when it is supplied, else with limit when it is, else
\* with the default, 5 for /query and 10 for the search route.
C10_TopKPrecedenceNonZero ==
  (SearchPosted /\ Answered)
    => LET body == request.body[1]
       IN SearchLimits \subseteq
            { IF Given(body.top_k) THEN body.top_k[1]
              ELSE IF Given(body.limit) THEN body.limit[1]
              ELSE RouteDefault }

\* Both are supplied and differ: the search of the search route uses top_k.
C10_Witness ==
  /\ SearchPosted /\ Answered /\ SearchMatch(request.path)
  /\ request.body[1].top_k = Some(3) /\ request.body[1].limit = Some(7)
  /\ SearchLimits = {3}

----------------------------------------------------------------------------
(* The claims about retrieval results and the streamed answer. *)

\* The vector search of the pending /query was made and chat answered.
Retrieved ==
  /\ QueryPosted /\ Answered /\ response.status = 200
  /\ CallsNamed({"searchPoints"}) # {}

\* The sources the response shows: the appended line of a stream, the sources
\* key of a JSON result, none when neither is there.
ShownSources ==
  IF response.kind = "stream"
  THEN IF response.appended = <<>> THEN <<>> ELSE response.appended[1].sources
  ELSE IF "sources" \in DOMAIN response.data[1] THEN response.data[1].sources
       ELSE <<>>

\* (id, score, content) of the first n results, in the order returned.
RankedSources(n) ==
  [i \in 1..n |-> [id |-> SearchResult(i).id, score |-> SearchResult(i).score,
                   content |-> SearchResult(i).payload.content]]

\* The lines '[1] content_1' .. '[n] content_n', a blank line between them.
RECURSIVE RankedLines(_, _)
RankedLines(i, n) ==
  IF i > n THEN ""
  ELSE "[" \o ToString(i) \o "] " \o SearchResult(i).payload.content
       \o (IF i < n THEN "\n\n" \o RankedLines(i + 1, n) ELSE "")

\* The text around a context block in the message that carries it.
BlockPrefixes ==
  {"", RagSystemPrompt \o "\n\n", SystemMessage.content \o "\n\n"}
BlockSuffixes == {""} \cup { "\n\nQuestion: " \o t : t \in {"q", "p", "u"} }

CarriesBlock(content, block) ==
  \E pre \in BlockPrefixes, post \in BlockSuffixes :
    content = pre \o "Context:\n" \o block \o post

ChatMessages == calls[Len(calls)].request.messages

C12_SourcesLineAlways ==
  (Retrieved /\ response.kind = "stream")
    => /\ Len(response.appended) = 1
       /\ \E n \in 0..MaxResults : response.appended[1].sources = RankedSources(n)

----------------------------------------------------------------------------
(* The claims about the other routes, under SpecOnce. *)

\* The middleware let the pending request through to a handler.
Handled == response'.handler \notin {"auth", "preflight"}

\* C13 as claimed: when the pull a POST /embed makes for a model absent
\* locally fails, the embedding call is not attempted and the response is an
\* error whose message names the model.
C13_EmbedPullFailureNamesModel ==
  [][ ( /\ Arrived /\ request.path = <<"embed">> /\ request.method = "POST"
        /\ request.body # Undef /\ request.body[1].model # Undef
        /\ request.body[1].model[1] \notin ollamaModels
        /\ \E i \in DOMAIN calls' : calls'[i].fn = "pullModelSync"
        /\ request.body[1].model[1] \notin ollamaModels' )
      => ( /\ ~response'.success
           /\ \A i \in DOMAIN calls' : calls'[i].fn # "embed"
           /\ request.body[1].model[1] \in Range(response'.error) ) ]_vars

\* The path belongs to one of the route families.
Claimed(path) ==
  /\ path # <<>>
  /\ \/ path[1] \in {"collections", "models", "api-tokens"}
     \/ path \in {<<"query">>, <<"embed">>, <<"generate">>, <<"chat">>}

\* C14 as claimed: a path claimed by a route family, requested with a method
\* no route of any family supports (PUT), is answered 405.
C14_UnsupportedMethod405 ==
  [][ (Arrived /\ Handled /\ Claimed(request.path) /\ request.method = "PUT")
      => response'.status = 405 ]_vars

\* The pending request is a POST /collections naming a collection the
\* backend already holds.
DuplicateCreation ==
  /\ Arrived /\ request.method = "POST" /\ request.path = <<"collections">>
  /\ request.body # Undef /\ request.body[1].name # Undef
  /\ request.body[1].embeddingModel # Undef
  /\ request.body[1].name[1] \in qdrantCollections

CallsMade(fn) == { i \in DOMAIN calls' : calls'[i].fn = fn }

\* C15 as claimed: a POST /collections naming an existing collection is
\* rejected with 409 and no backend create call is made.
C15_Duplicate409 ==
  [][ (DuplicateCreation /\ Handled)
      => (response'.status = 409 /\ CallsMade("createCollection") = {}) ]_vars

\* C15, amended: a POST /collections naming an existing collection never
\* succeeds and leaves the backend collection, its points and the registry
\* unchanged.  It is answered 409 with no create call once the existence
\* check finds the collection; 400 before that check when the embedding
\* dimension cannot be probed; and 500 from the backend's own refusal of the
\* create call when the existence check itself failed.
C15_DuplicateRejected ==
  [][ (DuplicateCreation /\ Handled)
      => ( /\ UNCHANGED <<configFile, defaultConfig, qdrantCollections, qdrantPoints>>
           /\ ~response'.success
           /\ response'.status \in {400, 409, 500}
           /\ response'.status = 409 =>
                /\ CallsMade("createCollection") = {}
                /\ CallsMade("collectionExists") # {}
           /\ response'.status = 400 => CallsMade("collectionExists") = {}
           /\ response'.status = 500 <=> CallsMade("createCollection") # {} ) ]_vars

\* "docs" exists, is created again, and the answer is 409 after the check.
C15_Witness ==
  /\ request.method = "POST" /\ request.path = <<"collections">>
  /\ request.body # Undef /\ request.body[1].name = Some("docs")
  /\ response.status = 409
  /\ calls[Len(calls)] = ExistsCall("docs")
  /\ "docs" \in qdrantCollections /\ "docs" \in DOMAIN loadConfig.collections

\* C16 as claimed: every response carries Access-Control-Allow-Origin: *.
C16_CorsEverywhere == Answered => response.cors

\* The pending request addresses a token, collection or model by a name that
\* does not exist, with a well-formed body where the route reads one.
AddressesMissing ==
  LET p == request.path
      m == request.method
  IN \/ /\ TokenMatch(p) /\ m \in {"GET", "DELETE"}
        /\ \A i \in DOMAIN StoredTokens : StoredTokens[i].id # p[2]
     \/ /\ CollectionMatch(p) /\ m = "GET"
        /\ p[2] \notin DOMAIN loadConfig.collections /\ p[2] \notin qdrantCollections
     \/ /\ DocumentsMatch(p) /\ m = "GET"
        /\ p[2] \notin DOMAIN loadConfig.collections /\ p[2] \notin qdrantCollections
     \/ /\ DocumentsMatch(p) /\ m = "DELETE"
        /\ request.body # Undef /\ request.body[1].ids # Undef
        /\ p[2] \notin DOMAIN loadConfig.collections /\ p[2] \notin qdrantCollections
     \/ /\ ModelMatch(p) /\ m \in {"GET", "DELETE"}
        /\ p[2] \notin ollamaModels

\* C17 as claimed: a route addressing a named token, collection or model that
\* does not exist answers 404.
C17_Missing404 ==
  [][ (Arrived /\ Handled /\ AddressesMissing) => response'.status = 404 ]_vars

\* The number of documents a set of points holds for a collection.
CountIn(points, collection) == Cardinality({ pt \in points : pt[1] = collection })

\* The pending request inserts one document under the caller's id x.
InsertsWithId(x) ==
  /\ Arrived /\ request.method = "POST" /\ DocumentsMatch(request.path)
  /\ request.body # Undef
  /\ DocumentsOf(request.body[1]) = <<Document(Some(x))>>

\* C18 as claimed, for an id x the collection does not hold yet: when a
\* document is inserted under the caller's id x, deleting by [x] from the points
\* the insertion left gives the collection the count it had before.
C18_InsertDeleteRoundTrip ==
  [][ \A x \in {0, 1, 9} :
        ( /\ InsertsWithId(x) /\ response'.status = 200
          /\ <<request.path[2], x>> \notin qdrantPoints )
        => CountIn(deletePoints(qdrantPoints', request.path[2], {x}), request.path[2])
             = CountIn(qdrantPoints, request.path[2]) ]_vars

----------------------------------------------------------------------------
(* The claims about the body of a streamed answer, under SpecStream. *)

\* The answer is the stream of a query that retrieved from a collection.
RagStream ==
  /\ Answered /\ response.kind = "stream"
  /\ request.body[1].collection # Undef

IsSources(chunk) == chunk.kind = "sources"

\* C19 as claimed: when the upstream of a RAG streaming query has produced
\* c_1..c_n and ended, the downstream has received exactly c_1..c_n in that
\* order, then exactly one sources chunk, and is closed.
C19_TransformOrdering ==
  (RagStream /\ stream.source = "ended")
    => /\ stream.state = "closed"
       /\ Len(stream.enqueued) = Len(stream.upstream) + 1
       /\ SubSeq(stream.enqueued, 1, Len(stream.upstream)) = stream.upstream
       /\ IsSources(stream.enqueued[Len(stream.enqueued)])

\* The same for the streams the transform is installed on: a search with at
\* least one result.
TransformOrderingWithSources ==
  /\ (RagStream /\ Transformed(response) /\ stream.source = "ended")
       => /\ stream.state = "closed"
          /\ stream.enqueued = Append(stream.upstream, SourcesChunk(response))
  /\ (RagStream /\ stream.source = "reading")
       => stream.state = "open" /\ stream.enqueued = stream.upstream

\* C20: once a read of the upstream has failed after k chunks, the downstream
\* is errored, holds those k chunks and no sources chunk, and is not closed;
\* and from then on nothing is read or enqueued and the state stays errored.
C20_ErrorPropagation ==
  [][ /\ stream'.source = "failed"
        => /\ stream'.state = "errored"
           /\ stream'.enqueued = stream'.upstream
           /\ \A i \in DOMAIN stream'.enqueued : ~IsSources(stream'.enqueued[i])
      /\ stream.source = "failed" => stream' = stream ]_vars

\* A RAG stream with sources failed after two chunks.
C20_Witness ==
  /\ RagStream /\ Transformed(response)
  /\ stream.source = "failed" /\ stream.state = "errored"
  /\ Len(stream.upstream) = 2 /\ stream.enqueued = stream.upstream

----------------------------------------------------------------------------
(* The claim about the messages of a prompt-mode query, under SpecQuery. *)

\* The user text the claim wants for a prompt: the bare prompt, or the
\* context block of n results followed by the prompt as the question.
PromptTexts(prompt) ==
  {prompt} \cup { "Context:\n" \o RankedLines(1, n) \o "\n\nQuestion: " \o prompt :
                    n \in 1..MaxResults }

\* C26 as claimed: a /query without messages whose prompt carries text sends
\* exactly two messages to chat, a system message with the default for RAG or
\* non-RAG and a user message built on the caller's prompt, also when a
\* separate query field was supplied.
C26_PromptModeMessages ==
  ( /\ QueryPosted /\ Answered /\ response.status = 200
    /\ request.body[1].messages = Undef
    /\ TruthyStr(request.body[1].prompt) )
  => /\ Len(ChatMessages) = 2
     /\ ChatMessages[1] =
          [role |-> "system",
           content |-> IF request.body[1].collection # Undef
                       THEN RagSystemPrompt ELSE PlainSystemPrompt]
     /\ ChatMessages[2].role = "user"
     /\ ChatMessages[2].content \in PromptTexts(request.body[1].prompt[1])

\* The same with the user message built on the resolved query text, query
\* before prompt.
PromptModeOnQueryText ==
  ( /\ QueryPosted /\ Answered /\ response.status = 200
    /\ request.body[1].messages = Undef )
  => /\ Len(ChatMessages) = 2
     /\ ChatMessages[1] =
          [role |-> "system",
           content |-> IF request.body[1].collection # Undef
                       THEN RagSystemPrompt ELSE PlainSystemPrompt]
     /\ ChatMessages[2].role = "user"
     /\ ChatMessages[2].content \in
          PromptTexts(IF TruthyStr(request.body[1].query)
                      THEN request.body[1].query[1] ELSE request.body[1].prompt[1])

----------------------------------------------------------------------------
(* The claims about a created collection's dimension and about the points of *)
(* inserted documents, under SpecOnce.                                       *)

\* The pending POST /collections was answered 201.
CollectionCreated ==
  /\ request.method = "POST" /\ request.path = <<"collections">>
  /\ Answered /\ response.status = 201

\* C22 as claimed: after a successful POST /collections the dimension in the
\* registry, and the one the backend collection was sized with, is the output
\* length of the collection's embedding model, whether or not the caller
\* supplied a dimension.
C22_DimensionOfModel ==
  CollectionCreated =>
    LET name == request.body[1].name[1]
        model == request.body[1].embeddingModel[1]
    IN /\ loadConfig.collections[name].embeddingModel = model
       /\ loadConfig.collections[name].dimension = ModelDim(model)
       /\ calls[Len(calls)] = CreateCall(name, ModelDim(model))

\* The pending POST of documents to a registered collection was answered 200.
Inserted ==
  /\ request.method = "POST" /\ DocumentsMatch(request.path)
  /\ Answered /\ response.status = 200

\* C24 as claimed: an insertion of d_1..d_n makes one embedding call with the
\* contents in document order and one upsert of n points, point i under
\* document i's id whenever the caller supplied one and under a generated id
\* otherwise; the response reports n and the ids in document order.
C24_InsertMapping ==
  Inserted =>
    LET documents == DocumentsOf(request.body[1])
        n == Len(documents)
        embeds == CallsNamed({"embed"})
        upserts == CallsNamed({"upsertPoints"})
    IN /\ Cardinality(embeds) = 1 /\ Cardinality(upserts) = 1
       /\ \A c \in embeds :
            calls[c].input = [i \in 1..n |-> documents[i].content]
       /\ \A c \in upserts :
            /\ Len(calls[c].ids) = n
            /\ calls[c].ids = response.data[1].ids
            /\ \A i \in 1..n :
                 IF documents[i].id # Undef
                 THEN calls[c].ids[i] = documents[i].id[1]
                 ELSE calls[c].ids[i] \in GeneratedIds
       /\ response.data[1].inserted = n

----------------------------------------------------------------------------
(* The claims about the stores under file faults, under SpecStore. *)

\* The step handles a request: the file's condition is not what changes.
RequestStep == disk' = disk /\ inflight' = inflight

\* The step is POST /collections reaching its handler with a name and a model.
CreateStep ==
  /\ RequestStep /\ vars' # vars
  /\ request'.method = "POST" /\ request'.path = <<"collections">>
  /\ response'.handler = "collections"

\* The backend collection of the request came to exist on this step.
BackendCreated ==
  /\ request'.body[1].name[1] \notin qdrantCollections
  /\ request'.body[1].name[1] \in qdrantCollections'

\* C21: POST /collections changes the registry only in a step in which the
\* backend collection was created, after the create call; when an earlier
\* step fails or the name exists, config.json and the registry are exactly as
\* before; when the registry write fails after the creation, the answer is 500,
\* the file is as before and the backend collection stays, no delete call
\* being made.
C21_CreateOrdering ==
  [][ CreateStep =>
        LET name == request'.body[1].name[1]
        IN /\ ~BackendCreated => UNCHANGED <<configFile, defaultConfig>>
           /\ response'.status \in {400, 409} => ~BackendCreated
           /\ BackendCreated =>
                /\ calls'[Len(calls')] = CreateCall(name, DimensionOf(request'.body[1]))
                /\ \A i \in DOMAIN calls' : calls'[i].fn # "deleteCollection"
                /\ name \in qdrantCollections'
           /\ (BackendCreated /\ ~WriteFails) =>
                /\ response'.status = 201
                /\ configFile' # Undef
                /\ name \in DOMAIN configFile'[1].collections
                /\ configFile'[1].collections[name] = NewCollectionConfig(request'.body[1])
           /\ (BackendCreated /\ WriteFails) =>
                /\ response'.status = 500
                /\ configFile' = configFile ]_vars

\* The registry write of a creation failed: 500, the backend collection is
\* there and config.json does not know it.
C21_Witness ==
  /\ request.method = "POST" /\ request.path = <<"collections">>
  /\ response.status = 500 /\ disk = "writeFails"
  /\ calls # <<>> /\ calls[Len(calls)].fn = "createCollection"
  /\ "docs" \in qdrantCollections
  /\ configFile # Undef /\ "docs" \notin DOMAIN configFile[1].collections

\* The step is DELETE /collections/:name reaching its handler.
DeleteStep ==
  /\ RequestStep /\ vars' # vars
  /\ request'.method = "DELETE" /\ CollectionMatch(request'.path)
  /\ response'.handler = "collections"

\* C23: DELETE /collections/:name makes the backend delete call first and no
\* other backend call; while the backend collection is still there (the delete
\* failed) the answer is 500 and the registry is as before; the registry entry
\* is removed only with the backend collection gone; when the registry write
\* fails after the backend delete the answer is 500, config.json is as before
\* and the backend collection is gone.
C23_DeleteOrdering ==
  [][ DeleteStep =>
        LET name == request'.path[2]
        IN /\ calls' = <<DeleteCall(name)>>
           /\ name \in qdrantCollections' =>
                /\ response'.status = 500
                /\ UNCHANGED <<configFile, defaultConfig>>
           /\ response'.status = 200 =>
                /\ name \notin qdrantCollections'
                /\ name \notin DOMAIN loadConfig'.collections
           /\ (WriteFails /\ name \notin qdrantCollections') =>
                /\ response'.status = 500
                /\ configFile' = configFile ]_vars

\* The registry removal of a deletion failed: 500, the backend collection is
\* gone and config.json still lists it.
C23_Witness ==
  /\ request.method = "DELETE" /\ request.path = <<"collections", "docs">>
  /\ response.status = 500 /\ disk = "writeFails"
  /\ "docs" \notin qdrantCollections
  /\ configFile # Undef /\ "docs" \in DOMAIN configFile[1].collections

\* The tokens created with success and not deleted with success.
LiveTokens == { h \in handedOut : h.id \notin revoked }

\* C27 as claimed: while a created token is not deleted and config.json cannot
\* be read, a request without credentials for a protected path is answered
\* 401 by the gate.
C27_FailsClosed ==
  (LiveTokens # {} /\ disk = "readFails")
    => AuthGate(Undef, <<"collections">>) # Undef

\* The collections the registry lists, as the handlers read it.
Registered == DOMAIN loadConfig.collections

FailedTokenCreation ==
  /\ RequestStep /\ vars' # vars
  /\ request'.method = "POST" /\ request'.path = <<"api-tokens">>
  /\ response'.handler = "apiTokens" /\ response'.status = 500

\* C30 as claimed: a POST /api-tokens that fails with 500 leaves the token set
\* the gate and later requests read as it was; an open system stays open.
C30_FailedCreationChangesNothing ==
  [][ FailedTokenCreation =>
        /\ getApiTokensWithHashes' = getApiTokensWithHashes
        /\ hasApiTokens' = hasApiTokens ]_vars

----------------------------------------------------------------------------
(* The claims about concurrent writers (SpecRace).                           *)

\* Handler p finishes in this step with a write of the copy of config.json
\* it parsed for itself.
WritesOwnCopy(p) ==
  /\ inflight[p] # Undef /\ inflight'[p] = Undef
  /\ inflight[p][1].phase = "saving"
  /\ ~inflight[p][1].shared
  /\ Saves(inflight[p][1])

\* C25: the store has no lock and no merge.  A handler's write leaves in
\* config.json exactly the configuration that handler loaded with its own
\* change applied, whatever other handlers stored between its load and its
\* write; so of two overlapping token creations that both loaded the same file
\* and both answer 201, only the token of the later writer stays stored.
C25_LastWriteWins ==
  [][ \A p \in Procs :
        WritesOwnCopy(p) =>
          configFile' = Some(Changed(inflight[p][1], inflight[p][1].config)) ]_vars

\* Two token creations were answered 201, neither token was deleted, and one
\* of the two is stored.
C25_Witness ==
  /\ inflight = NoneInFlight
  /\ revoked = {}
  /\ Cardinality(handedOut) = 2
  /\ request.method = "POST" /\ request.path = <<"api-tokens">>
  /\ response.handler = "apiTokens" /\ response.status = 201
  /\ configFile # Undef /\ Len(configFile[1].apiTokens) = 1
  /\ Cardinality({ h \in handedOut : validateBearerToken(h.token) }) = 1

\* C28 as claimed: a token whose DELETE was answered 200 does not validate
\* again, whatever handlers overlap.
C28_RevocationDurable ==
  \A h \in handedOut : h.id \in revoked => ~validateBearerToken(h.token)

====
